---- MODULE Spec2Model ----
(***************************************************************************)
(* Model of the inline grammar checker's analysis pipeline:                *)
(*   AnalysisCache  (LRU + TTL cache with a persisted snapshot)            *)
(*   AnalysisEngine (analyze, analyzeRealTime debouncing, reset, destroy)  *)
(*   TextAnalyzer   (internal result cache and provider request queue)     *)
(* Strings are sequences of UTF-16 code units; a JavaScript Map is a       *)
(* sequence of entries in insertion order; Date.now() is the variable now. *)
(***************************************************************************)
EXTENDS Integers, Sequences, FiniteSets, TLC

(***************************************************************************)
(* Bounds of the model and configuration values used by the model runs.    *)
(***************************************************************************)
\* number of cache API calls explored in the cache specification
MaxOps == 4
\* number of cache API calls explored in the expiry specification
MaxTtlOps == 3
\* last clock value (milliseconds) explored
MaxTime == 2
\* number of analyzeRealTime calls explored in the debounce and teardown
\* specifications
MaxCalls == 3
\* number of analyze calls explored in the analysis specification
MaxAnalyzeCalls == 2

\* "absent": the value of a missing property / undefined / null
None == "none"
\* the result of a lookup: not found (null), or found with the stored value
NotFound == [found |-> FALSE]
Found(d) == [found |-> TRUE, data |-> d]

(***************************************************************************)
(* Generic helpers for sequences used as JavaScript arrays and Maps.       *)
(***************************************************************************)
Range(s) == {s[i] : i \in 1..Len(s)}

RECURSIVE SeqFilter(_, _)
\* the subsequence of s whose elements are in the set keep, order preserved
SeqFilter(s, keep) ==
  IF s = <<>> THEN <<>>
  ELSE IF Head(s) \in keep THEN <<Head(s)>> \o SeqFilter(Tail(s), keep)
       ELSE SeqFilter(Tail(s), keep)

\* Map.prototype.has / get / set / delete on a sequence of records with a key field
MapKeys(m) == {m[i].key : i \in 1..Len(m)}
MapHas(m, k) == k \in MapKeys(m)
MapIndex(m, k) == CHOOSE i \in 1..Len(m) : m[i].key = k
\* Map.get of a key the map holds
MapGet(m, k) == m[MapIndex(m, k)]
\* Map.set keeps the position of an existing key and appends a new one
MapSet(m, e) ==
  IF MapHas(m, e.key) THEN [m EXCEPT ![MapIndex(m, e.key)] = e] ELSE Append(m, e)
MapDelete(m, k) == SeqFilter(m, {e \in Range(m) : e.key # k})
MapDeleteAll(m, ks) == SeqFilter(m, {e \in Range(m) : e.key \notin ks})

(***************************************************************************)
(* AnalysisCache.hashText: hash = ((hash << 5) - hash + code) | 0 over the *)
(* code units, then Math.abs(hash).toString(36).  The 32-bit pattern is    *)
(* kept as two 16-bit halves so that no intermediate value leaves the      *)
(* checker's integer range.                                                *)
(***************************************************************************)
Half == 65536

\* one loop iteration: (31 * h + code) mod 2^32
HashStep(h, code) ==
  LET lo1 == h.lo * 31 + code
      hi1 == h.hi * 31 + (lo1 \div Half)
  IN  [hi |-> hi1 % Half, lo |-> lo1 % Half]

RECURSIVE HashLoop(_, _)
HashLoop(h, text) ==
  IF text = <<>> THEN h ELSE HashLoop(HashStep(h, Head(text)), Tail(text))

\* Math.abs of the signed 32-bit value: two's complement negation when bit 31 is set
HashAbs(h) ==
  IF h.hi < 32768 THEN h
  ELSE [hi |-> (65535 - h.hi + (IF h.lo = 0 THEN 1 ELSE 0)) % Half,
        lo |-> (Half - h.lo) % Half]

RECURSIVE Base36Small(_)
\* Number.prototype.toString(36) of n < 2^31, most significant digit first
Base36Small(n) ==
  IF n < 36 THEN <<n>> ELSE Append(Base36Small(n \div 36), n % 36)

\* toString(36) of a value given as halves (the value may be 2^31)
ToString36(h) ==
  LET r1 == h.hi % 36
      t  == r1 * Half + h.lo
      q  == (h.hi \div 36) * Half + (t \div 36)
  IN  IF q = 0 THEN <<t % 36>> ELSE Append(Base36Small(q), t % 36)

hashText(text) ==
  IF Len(text) = 0 THEN <<0>>
  ELSE ToString36(HashAbs(HashLoop([hi |-> 0, lo |-> 0], text)))

(***************************************************************************)
(* AnalysisCache.hashObject: JSON.stringify(obj, Object.keys(obj).sort())  *)
(* hashed by hashText.  An options object is a sequence of properties      *)
(* [k |-> name, v |-> value] in insertion order; a value is a string       *)
(* [t |-> "str", s |-> code units] or a number [t |-> "num", n |-> n].     *)
(***************************************************************************)
RECURSIVE StrLess(_, _)
\* the default Array.prototype.sort order: by code units, a prefix first
StrLess(a, b) ==
  IF b = <<>> THEN FALSE
  ELSE IF a = <<>> THEN TRUE
  ELSE IF Head(a) # Head(b) THEN Head(a) < Head(b)
  ELSE StrLess(Tail(a), Tail(b))

RECURSIVE SortedInsert(_, _)
SortedInsert(s, x) ==
  IF s = <<>> THEN <<x>>
  ELSE IF StrLess(x, Head(s)) THEN <<x>> \o s
  ELSE <<Head(s)>> \o SortedInsert(Tail(s), x)

RECURSIVE SortStrings(_)
SortStrings(s) ==
  IF s = <<>> THEN <<>> ELSE SortedInsert(SortStrings(Tail(s)), Head(s))

ObjectKeys(obj) == [i \in 1..Len(obj) |-> obj[i].k]
PropValue(obj, k) == (CHOOSE i \in 1..Len(obj) : obj[i].k = k)
HasProp(obj, k) == \E i \in 1..Len(obj) : obj[i].k = k
Prop(obj, k) == IF HasProp(obj, k) THEN obj[PropValue(obj, k)].v ELSE None

RECURSIVE DecimalDigits(_)
DecimalDigits(n) ==
  IF n < 10 THEN <<48 + n>> ELSE Append(DecimalDigits(n \div 10), 48 + (n % 10))

\* JSON text of one value (the strings of the model need no escaping)
JsonValue(v) == IF v.t = "num" THEN DecimalDigits(v.n) ELSE <<34>> \o v.s \o <<34>>

RECURSIVE JsonMembers(_, _)
\* the members "k":v of obj, in the order of the property list keys
JsonMembers(obj, keys) ==
  IF keys = <<>> THEN <<>>
  ELSE LET m == <<34>> \o Head(keys) \o <<34, 58>> \o JsonValue(Prop(obj, Head(keys)))
       IN  IF Len(keys) = 1 THEN m ELSE m \o <<44>> \o JsonMembers(obj, Tail(keys))

\* JSON.stringify(obj, keys): an object serialised in the order of the replacer array
JsonStringify(obj, keys) == <<123>> \o JsonMembers(obj, keys) \o <<125>>

\* a mutant of hashObject: the keys are serialised in insertion order
hashObject_unsorted(obj) == hashText(JsonStringify(obj, ObjectKeys(obj)))

\* AnalysisCache.hashObject: JSON.stringify(obj, Object.keys(obj).sort()), hashed
hashObject(obj) == hashText(JsonStringify(obj, SortStrings(ObjectKeys(obj))))

\* the character "_" of a key, told apart from the base-36 digits 0..35
Underscore == 36

\* AnalysisCache.generateKey: `${textHash}_${optionsHash}`
generateKey(text, options) == hashText(text) \o <<Underscore>> \o hashObject(options)

RECURSIVE TakeUntil(_, _)
TakeUntil(s, c) ==
  IF s = <<>> \/ Head(s) = c THEN <<>> ELSE <<Head(s)>> \o TakeUntil(Tail(s), c)

\* AnalysisCache.extractTextHashFromKey: key.split('_')[0]
extractTextHashFromKey(key) == TakeUntil(key, Underscore)

(***************************************************************************)
(* AnalysisCache.  The object is the record                                *)
(*   [cache, accessOrder, stats, maxSize, maxAge, enablePersistence,       *)
(*    cleanupInterval]                                                     *)
(* cache: Map key -> entry, as [key, data, timestamp, expires,             *)
(* accessCount]; accessOrder: Map key -> last access time, as [key, time]. *)
(* The durable store is [present, item, mode]: whether persistKey holds a  *)
(* value, that value, and whether setItem succeeds ("ok"), throws          *)
(* QuotaExceededError ("quota") or throws another error ("error").         *)
(* A method is an operator on the pair w = [c |-> object, ls |-> store]    *)
(* and the time t of the call; it returns [w |-> ..., ret |-> ...].        *)
(***************************************************************************)
NewStats ==
  [hits |-> 0, misses |-> 0, evictions |-> 0, invalidations |-> 0,
   persistenceLoads |-> 0, persistenceSaves |-> 0]

\* a mutant of isExpired: the age is taken from the entry's timestamp
isExpired_timestamp(entry, t) == t > entry.timestamp

\* AnalysisCache.isExpired: Date.now() > entry.expires
isExpired(entry, t) == t > entry.expires

ExpiredKeys(c, t) == {e.key : e \in {x \in Range(c.cache) : x.expires <= t}}

\* the deletions of clearExpiredEntries: entries with expires <= now leave both maps
RemoveExpired(c, t) ==
  [c EXCEPT !.cache = MapDeleteAll(@, ExpiredKeys(c, t)),
            !.accessOrder = MapDeleteAll(@, ExpiredKeys(c, t))]

\* the snapshot written by saveToPersistence: the entries and the statistics
Snapshot(c) == [cache |-> c.cache, stats |-> c.stats]

\* a mutant of saveToPersistence: a failed write empties the cache
saveToPersistence_dropAll(w, t) ==
  IF w.ls.mode = "ok"
  THEN [c  |-> [w.c EXCEPT !.stats.persistenceSaves = @ + 1],
        ls |-> [w.ls EXCEPT !.present = TRUE, !.item = Snapshot(w.c)]]
  ELSE [w EXCEPT !.c.cache = <<>>, !.c.accessOrder = <<>>]

\* AnalysisCache.saveToPersistence.  On QuotaExceededError the handler runs
\* clearExpiredEntries (whose own nested save fails the same way) and retries
\* once; the retry cannot succeed while the store still refuses writes.
saveToPersistence(w, t) ==
  IF w.ls.mode = "ok"
  THEN [c  |-> [w.c EXCEPT !.stats.persistenceSaves = @ + 1],
        ls |-> [w.ls EXCEPT !.present = TRUE, !.item = Snapshot(w.c)]]
  ELSE IF w.ls.mode = "quota"
  THEN [w EXCEPT !.c = RemoveExpired(w.c, t)]
  ELSE w

\* AnalysisCache.clearPersistence: removeItem, errors swallowed
clearPersistence(w) ==
  IF w.ls.mode = "error" THEN w ELSE [w EXCEPT !.ls.present = FALSE, !.ls.item = <<>>]

\* AnalysisCache.clearExpiredEntries
clearExpiredEntries(w, t) ==
  LET w1 == [w EXCEPT !.c = RemoveExpired(w.c, t)]
  IN  IF ExpiredKeys(w.c, t) # {} /\ w.c.enablePersistence
      THEN saveToPersistence(w1, t) ELSE w1

\* the key evictLRU picks: the first key in accessOrder's iteration order whose
\* time is strictly smaller than every time before it, i.e. the first minimum;
\* <<>> stands for the null of an empty accessOrder
OldestKey(ao) ==
  IF ao = <<>> THEN <<>>
  ELSE LET i == CHOOSE j \in 1..Len(ao) :
                  /\ \A k \in 1..Len(ao) : ao[j].time <= ao[k].time
                  /\ \A k \in 1..(j - 1) : ao[k].time > ao[j].time
       IN  ao[i].key

\* AnalysisCache.evictLRU
evictLRU(c) ==
  IF Len(c.cache) = 0 \/ OldestKey(c.accessOrder) = <<>> THEN c
  ELSE LET k == OldestKey(c.accessOrder)
       IN  [c EXCEPT !.cache = MapDelete(@, k), !.accessOrder = MapDelete(@, k),
                     !.stats.evictions = @ + 1]

\* AnalysisCache.get
get(w, key, t) ==
  LET entry == MapGet(w.c.cache, key)
  IN  IF ~MapHas(w.c.cache, key)
      THEN [w |-> [w EXCEPT !.c.stats.misses = @ + 1], ret |-> NotFound]
      ELSE IF isExpired(entry, t)
      THEN [w |-> [w EXCEPT !.c.cache = MapDelete(@, key),
                            !.c.accessOrder = MapDelete(@, key),
                            !.c.stats.misses = @ + 1],
            ret |-> NotFound]
      ELSE [w |-> [w EXCEPT
                     !.c.accessOrder = MapSet(@, [key |-> key, time |-> t]),
                     !.c.cache = MapSet(@, [entry EXCEPT !.accessCount =
                                    (IF @ = 0 THEN 1 ELSE @) + 1]),
                     !.c.stats.hits = @ + 1],
            ret |-> Found(entry.data)]

\* options.ttl || this.maxAge: a missing ttl (written 0) or a zero ttl selects maxAge
EffectiveTtl(c, ttl) == IF ttl = 0 THEN c.maxAge ELSE ttl

\* AnalysisCache.set
set(w, key, data, ttl, t) ==
  LET entry == [key |-> key, data |-> data, timestamp |-> t,
                expires |-> t + EffectiveTtl(w.c, ttl), accessCount |-> 1]
      c1 == IF Len(w.c.cache) >= w.c.maxSize /\ ~MapHas(w.c.cache, key)
            THEN evictLRU(w.c) ELSE w.c
      c2 == [c1 EXCEPT !.cache = MapSet(@, entry),
                       !.accessOrder = MapSet(@, [key |-> key, time |-> t])]
      w2 == [w EXCEPT !.c = c2]
  IN  IF w.c.enablePersistence THEN saveToPersistence(w2, t) ELSE w2

\* AnalysisCache.has
has(w, key, t) ==
  LET entry == MapGet(w.c.cache, key)
  IN  IF ~MapHas(w.c.cache, key) THEN [w |-> w, ret |-> FALSE]
      ELSE IF isExpired(entry, t)
      THEN [w |-> [w EXCEPT !.c.cache = MapDelete(@, key),
                            !.c.accessOrder = MapDelete(@, key)],
            ret |-> FALSE]
      ELSE [w |-> w, ret |-> TRUE]

\* AnalysisCache.delete
delete(w, key, t) ==
  LET existed == MapHas(w.c.cache, key)
      w1 == [w EXCEPT !.c.cache = MapDelete(@, key),
                      !.c.accessOrder = MapDelete(@, key)]
  IN  [w |-> IF existed /\ w.c.enablePersistence THEN saveToPersistence(w1, t) ELSE w1,
       ret |-> existed]

\* AnalysisCache.clear
clear(w) ==
  LET w1 == [w EXCEPT !.c.cache = <<>>, !.c.accessOrder = <<>>]
  IN  IF w.c.enablePersistence THEN clearPersistence(w1) ELSE w1

\* AnalysisCache.calculateSimilarity as the fraction [num, den]: 1 for equal
\* hashes, else the share of positions below the longer length that agree
calculateSimilarity(h1, h2) ==
  IF h1 = h2 THEN [num |-> 1, den |-> 1]
  ELSE LET maxLength == IF Len(h1) >= Len(h2) THEN Len(h1) ELSE Len(h2)
           matches == Cardinality({i \in 1..maxLength :
                        i <= Len(h1) /\ i <= Len(h2) /\ h1[i] = h2[i]})
       IN  [num |-> matches, den |-> maxLength]

\* similarity > threshold, the threshold given as the fraction [num, den]
MoreSimilarThan(sim, threshold) == sim.num * threshold.den > threshold.num * sim.den

\* the keys invalidateByText collects, in the cache's iteration order
KeysToInvalidate(c, text, threshold) ==
  LET textHash == hashText(text)
      hit(key) == /\ extractTextHashFromKey(key) # <<>>
                  /\ MoreSimilarThan(
                       calculateSimilarity(textHash, extractTextHashFromKey(key)),
                       threshold)
  IN  SeqFilter([i \in 1..Len(c.cache) |-> c.cache[i].key],
                {k \in MapKeys(c.cache) : hit(k)})

RECURSIVE InvalidateKeys(_, _, _)
\* keysToInvalidate.forEach: delete(key), then stats.invalidations++
InvalidateKeys(w, keys, t) ==
  IF keys = <<>> THEN w
  ELSE InvalidateKeys([delete(w, Head(keys), t).w EXCEPT !.c.stats.invalidations = @ + 1],
                      Tail(keys), t)

\* AnalysisCache.invalidateByText
invalidateByText(w, text, threshold, t) ==
  InvalidateKeys(w, KeysToInvalidate(w.c, text, threshold), t)

\* scoreB - scoreA > 0 in optimize, with score = accessCount * Math.log(time + 1):
\* Date.now() is of the order of 10^12, so for the counts a cache can reach the
\* product orders entries by accessCount first and by access time second; an
\* entry without an access time scores accessCount * Math.log(1) = 0
ScoreLess(c, a, b) ==
  LET cnt(e) == IF e.accessCount = 0 THEN 1 ELSE e.accessCount
      timed(e) == MapHas(c.accessOrder, e.key)
      time(e) == MapGet(c.accessOrder, e.key).time
  IN  IF ~timed(b) THEN FALSE
      ELSE IF ~timed(a) THEN TRUE
      ELSE \/ cnt(a) < cnt(b)
           \/ cnt(a) = cnt(b) /\ time(a) < time(b)

RECURSIVE InsertByScore(_, _, _)
InsertByScore(c, s, x) ==
  IF s = <<>> THEN <<x>>
  ELSE IF ScoreLess(c, Head(s), x) THEN <<x>> \o s
  ELSE <<Head(s)>> \o InsertByScore(c, Tail(s), x)

RECURSIVE SortByScore(_, _)
\* the stable sort of optimize: descending score, ties in the cache's order
SortByScore(c, s) ==
  IF s = <<>> THEN <<>>
  ELSE InsertByScore(c, SortByScore(c, SubSeq(s, 1, Len(s) - 1)), s[Len(s)])

\* AnalysisCache.optimize
optimize(w, t) ==
  LET entries == SortByScore(w.c, w.c.cache)
      keepCount == (w.c.maxSize * 6) \div 10
      toRemove == {entries[i].key : i \in (keepCount + 1)..Len(entries)}
      w1 == [w EXCEPT !.c.cache = MapDeleteAll(@, toRemove),
                      !.c.accessOrder = MapDeleteAll(@, toRemove)]
  IN  IF Len(entries) * 10 > w.c.maxSize * 8
      THEN (IF w.c.enablePersistence THEN saveToPersistence(w1, t) ELSE w1)
      ELSE w

RECURSIVE MapSetAll(_, _)
MapSetAll(m, es) == IF es = <<>> THEN m ELSE MapSetAll(MapSet(m, Head(es)), Tail(es))

\* Object.assign(this.stats, data.stats) for a snapshot that carries all counters
AssignStats(stats, given) == given

\* AnalysisCache.export
export(c) == [cache |-> c.cache, accessOrder |-> c.accessOrder, stats |-> c.stats]

\* AnalysisCache.import: clear(), then the given entries, access times and stats
import(w, data) ==
  LET w1 == clear(w)
  IN  [w1 EXCEPT !.c.cache = MapSetAll(@, data.cache),
                 !.c.accessOrder = MapSetAll(@, data.accessOrder),
                 !.c.stats = AssignStats(@, data.stats)]

\* AnalysisCache.loadFromPersistence: the entries with expires > now are restored,
\* their access time set to their timestamp, and the saved statistics taken over
loadFromPersistence(c, ls, t) ==
  IF ~ls.present THEN c
  ELSE LET live == SeqFilter(ls.item.cache, {e \in Range(ls.item.cache) : e.expires > t})
       IN  [c EXCEPT
              !.cache = MapSetAll(@, live),
              !.accessOrder = MapSetAll(@, [i \in 1..Len(live) |->
                                 [key |-> live[i].key, time |-> live[i].timestamp]]),
              !.stats = [AssignStats(@, ls.item.stats) EXCEPT !.persistenceLoads = @ + 1]]

\* new AnalysisCache(options): the fields, the load when persistence is enabled,
\* and setupCleanup's interval timer
NewCache(maxSize, maxAge, enablePersistence, ls, t) ==
  LET c0 == [cache |-> <<>>, accessOrder |-> <<>>, stats |-> NewStats,
             maxSize |-> maxSize, maxAge |-> maxAge,
             enablePersistence |-> enablePersistence, cleanupInterval |-> TRUE]
  IN  IF enablePersistence THEN loadFromPersistence(c0, ls, t) ELSE c0

\* a mutant of destroyCache: the maps are emptied, the snapshot is left in the store
destroyCache_keepsSnapshot(w) ==
  [w EXCEPT !.c.cleanupInterval = FALSE, !.c.cache = <<>>, !.c.accessOrder = <<>>]

\* AnalysisCache.destroy: clearInterval, then clear()
destroyCache(w) == clear([w EXCEPT !.c.cleanupInterval = FALSE])

(***************************************************************************)
(* JavaScript values passed as text: a string [t |-> "str", s |-> units],  *)
(* null [t |-> "null"] or a number [t |-> "num", n |-> n].                 *)
(***************************************************************************)
JsStr(units) == [t |-> "str", s |-> units]
JsNull == [t |-> "null"]
JsNum(n) == [t |-> "num", n |-> n]

\* !text : null, the empty string and 0 are falsy
Falsy(v) == \/ v.t = "null"
            \/ v.t = "str" /\ Len(v.s) = 0
            \/ v.t = "num" /\ v.n = 0

\* space, tab, line feed, carriage return
WhiteSpace == {32, 9, 10, 13}
\* text.trim().length === 0
IsBlank(units) == \A i \in 1..Len(units) : units[i] \in WhiteSpace

(***************************************************************************)
(* TextAnalyzer.  The object is [requestQueue, isProcessing, current,      *)
(* analysisCache]: the queued requests (call numbers), whether the queue   *)
(* worker runs, the request it has sent to the provider (0 when none) and  *)
(* the internal result cache, a Map key -> combined result.  The texts of  *)
(* the model are shorter than maxChunkSize, so chunkText returns the text  *)
(* as its only chunk and an analysis is one request; the runs make fewer   *)
(* requests than the rate limiter's 10 per minute, so it admits them all.  *)
(***************************************************************************)
NewTextAnalyzer ==
  [requestQueue |-> <<>>, isProcessing |-> FALSE, current |-> 0, analysisCache |-> <<>>]

\* TextAnalyzer.generateCacheKey: hashString(text) _ hashString(JSON.stringify(options)),
\* the options serialised in their own property order
generateCacheKey(text, options) ==
  hashText(text) \o <<Underscore>> \o hashText(JsonStringify(options, ObjectKeys(options)))

\* Math.max(0, issue.startIndex || 0) and Math.min(chunk.length, issue.endIndex || 0)
ClampStart(raw) == IF raw.startIndex > 0 THEN raw.startIndex ELSE 0
ClampEnd(raw, len) == IF raw.endIndex < len THEN raw.endIndex ELSE len

\* a mutant of parseAnalysisResponse: a completion without JSON gives one generic
\* issue over the whole chunk
parseAnalysisResponse_genericIssue(response, chunk, ordinal) ==
  IF response.kind = "json"
  THEN [i \in 1..Len(response.issues) |->
          [id |-> <<ordinal, i>>,
           type |-> response.issues[i].type,
           severity |-> response.issues[i].severity,
           startIndex |-> ClampStart(response.issues[i]),
           endIndex |-> ClampEnd(response.issues[i], Len(chunk))]]
  ELSE <<[id |-> <<ordinal, 1>>, type |-> "grammar", severity |-> "warning",
          startIndex |-> 0, endIndex |-> Len(chunk)]>>

\* TextAnalyzer.parseAnalysisResponse: a completion that holds a JSON object gives
\* its issues, normalised; any other completion gives no issues (parseError).
\* generateIssueId (the time and a random suffix) is the ordinal of the request
\* with the index of the issue
parseAnalysisResponse(response, chunk, ordinal) ==
  IF response.kind = "json"
  THEN [i \in 1..Len(response.issues) |->
          [id |-> <<ordinal, i>>,
           type |-> response.issues[i].type,
           severity |-> response.issues[i].severity,
           startIndex |-> ClampStart(response.issues[i]),
           endIndex |-> ClampEnd(response.issues[i], Len(chunk))]]
  ELSE <<>>

\* the summaries of generateSuggestions / generateEnhancedSuggestions: one per
\* issue type present (the issues of the model carry no replacement candidates)
TypeSummaries(issues) ==
  LET types == {issues[i].type : i \in 1..Len(issues)}
      firstAt(ty) == CHOOSE i \in 1..Len(issues) :
                       issues[i].type = ty /\ \A j \in 1..(i - 1) : issues[j].type # ty
      order == SeqFilter([i \in 1..Len(issues) |-> i], {firstAt(ty) : ty \in types})
  IN  [n \in 1..Len(order) |->
         [issueType |-> issues[order[n]].type,
          count |-> Cardinality({i \in 1..Len(issues) : issues[i].type = issues[order[n]].type})]]

\* String.prototype.substring: both indices are clamped to 0..length and swapped
\* when the first is the larger
Substring(s, a, b) ==
  LET clamp(n) == IF n < 0 THEN 0 ELSE IF n > Len(s) THEN Len(s) ELSE n
      lo == IF a <= b THEN clamp(a) ELSE clamp(b)
      hi == IF a <= b THEN clamp(b) ELSE clamp(a)
  IN  SubSeq(s, lo + 1, hi)

\* TextAnalyzer.combineChunkResults for the single chunk (offset 0): each issue
\* keeps its indices and its originalText is cut again from the whole text (the
\* value parseAnalysisResponse cut from the provider's raw indices is replaced)
combineChunkResults(issues, text) ==
  [issues |-> [i \in 1..Len(issues) |->
                 [id |-> issues[i].id, type |-> issues[i].type,
                  severity |-> issues[i].severity,
                  startIndex |-> issues[i].startIndex, endIndex |-> issues[i].endIndex,
                  originalText |-> Substring(text, issues[i].startIndex, issues[i].endIndex)]],
   suggestions |-> TypeSummaries(issues), textLength |-> Len(text)]

\* the result analyzeText returns for an empty or blank text
EmptyAnalysis == [issues |-> <<>>, suggestions |-> <<>>, textLength |-> 0]

(***************************************************************************)
(* AnalysisEngine.  The object is [config, stats, destroyed]; destroyed    *)
(* stands for textAnalyzer, issueDetector and analysisCache being null.    *)
(* activeAnalyses is a Map analysisId -> [timeout, text, options].         *)
(* Call number i of analyze / analyzeRealTime owns timers[i] (the timer    *)
(* setTimeout returned and the closure it runs), runs[i] (how far its      *)
(* analyze has come) and promises[i] (the promise it returned).            *)
(***************************************************************************)
\* the statistics; analysisTimeSum is averageAnalysisTime * totalAnalyses, the
\* sum updateStats keeps the average of
NewEngineStats ==
  [totalAnalyses |-> 0, cacheHits |-> 0, cacheMisses |-> 0, totalIssuesFound |-> 0,
   analysisTimeSum |-> 0]

NoTimer == [status |-> "none", aid |-> <<>>, text |-> JsNull, options |-> <<>>]
\* seq: the position of the run's request in the order of requestQueue.push
\* calls (history), 0 while it has made none
NoRun == [stage |-> "idle", key |-> <<>>, text |-> <<>>, options |-> <<>>,
          startTime |-> 0, raw |-> EmptyAnalysis, seq |-> 0]
PendingPromise == [state |-> "pending", error |-> "", fromCache |-> FALSE,
                   issues |-> <<>>, suggestions |-> <<>>, originalText |-> <<>>]

Rejected(error) == [PendingPromise EXCEPT !.state = "rejected", !.error = error]
Resolved(result, fromCache) ==
  [PendingPromise EXCEPT !.state = "resolved", !.fromCache = fromCache,
                         !.issues = result.issues, !.suggestions = result.suggestions,
                         !.originalText = result.originalText]

\* the code units of "analysisId", "cacheTtl" and "realtime_"
AnalysisIdName == <<97, 110, 97, 108, 121, 115, 105, 115, 73, 100>>
CacheTtlName == <<99, 97, 99, 104, 101, 84, 116, 108>>
RealtimePrefix == <<114, 101, 97, 108, 116, 105, 109, 101, 95>>

\* options.cacheTtl || this.analysisCache.maxAge
CacheTtlOf(options, c) ==
  IF HasProp(options, CacheTtlName) /\ Prop(options, CacheTtlName).n # 0
  THEN Prop(options, CacheTtlName).n ELSE c.maxAge

\* options.analysisId || `realtime_${Date.now()}`
AnalysisIdOf(options, t) ==
  IF HasProp(options, AnalysisIdName) /\ Len(Prop(options, AnalysisIdName).s) > 0
  THEN Prop(options, AnalysisIdName).s
  ELSE RealtimePrefix \o DecimalDigits(t)

\* the engine after its constructor; maxTextLength (default 10000) is set small
SmallMaxTextLength == 2
NewEngine(enableCache, enableRealTimeAnalysis) ==
  [config |-> [enableCache |-> enableCache,
               enableRealTimeAnalysis |-> enableRealTimeAnalysis,
               maxTextLength |-> SmallMaxTextLength],
   stats |-> NewEngineStats,
   destroyed |-> FALSE]

(***************************************************************************)
(* The engine's methods are operators on the bundle                        *)
(*   S = [eng, w, ta, runs, promises, sent]                                *)
(* w the cache and its store, sent the requests handed to the provider so  *)
(* far (call numbers, in order).                                           *)
(***************************************************************************)

\* a mutant of enqueueRequest: processQueue has no isProcessing guard, every
\* request is sent as soon as it is pushed
enqueueRequest_noGuard(ta, sent, i) ==
  [ta |-> [ta EXCEPT !.isProcessing = TRUE, !.current = i], sent |-> Append(sent, i)]


\* TextAnalyzer.analyzeTextChunk + processQueue: the request is queued; an idle
\* worker takes it at once and sends it to the provider
enqueueRequest(ta, sent, i) ==
  IF ta.isProcessing
  THEN [ta |-> [ta EXCEPT !.requestQueue = Append(@, i)], sent |-> sent]
  ELSE [ta |-> [ta EXCEPT !.isProcessing = TRUE, !.current = i], sent |-> Append(sent, i)]

\* processQueue after a request is settled: the next request is sent, or the
\* worker stops
nextRequest(ta, sent) ==
  IF ta.requestQueue = <<>>
  THEN [ta |-> [ta EXCEPT !.isProcessing = FALSE, !.current = 0], sent |-> sent]
  ELSE [ta |-> [ta EXCEPT !.current = Head(ta.requestQueue),
                          !.requestQueue = Tail(ta.requestQueue)],
        sent |-> Append(sent, Head(ta.requestQueue))]

\* a mutant of analyzeValidate: the length check is dropped
analyzeValidate_noLength(text, maxTextLength) ==
  IF Falsy(text) \/ text.t # "str" THEN "Invalid text input" ELSE ""

\* AnalysisEngine.analyze, lines 73-80: the validation error thrown ("Text too
\* long" for "Text too long (max N characters)"), "" if none
analyzeValidate(text, maxTextLength) ==
  IF Falsy(text) \/ text.t # "str" THEN "Invalid text input"
  ELSE IF Len(text.s) > maxTextLength THEN "Text too long"
  ELSE ""

\* AnalysisEngine.performAnalysis up to its await of TextAnalyzer.analyzeText:
\* a blank text and a text found in the analyzer's own cache return without a
\* request (stage "micro": the continuation is a pending microtask), any other
\* text is queued for the provider
performAnalysisBegin(S, i, units, options, key, t) ==
  LET taKey == generateCacheKey(units, options)
      run == [NoRun EXCEPT !.key = key, !.text = units, !.options = options,
                           !.startTime = t]
  IN  IF IsBlank(units)
      THEN [S EXCEPT !.runs[i] = [run EXCEPT !.stage = "micro", !.raw = EmptyAnalysis]]
      ELSE IF MapHas(S.ta.analysisCache, taKey)
      THEN [S EXCEPT !.runs[i] = [run EXCEPT !.stage = "micro",
                                     !.raw = MapGet(S.ta.analysisCache, taKey).data]]
      ELSE LET q == enqueueRequest(S.ta, S.sent, i)
               pushed == {j \in 1..Len(S.runs) : S.runs[j].seq # 0}
           IN  [S EXCEPT !.runs[i] = [run EXCEPT !.stage = "queued",
                                                 !.seq = Cardinality(pushed) + 1],
                         !.ta = q.ta, !.sent = q.sent]

\* a mutant of analyzeBegin: a cache hit is not tagged as coming from the cache
analyzeBegin_untagged(S, i, text, options, t) ==
  LET error == analyzeValidate(text, S.eng.config.maxTextLength)
      key == generateKey(text.s, options)
      r == get(S.w, key, t)
  IN  IF error # "" THEN [S EXCEPT !.promises[i] = Rejected(error), !.runs[i].stage = "done"]
      ELSE IF S.eng.destroyed
      THEN [S EXCEPT !.promises[i] = Rejected("TypeError"), !.runs[i].stage = "done"]
      ELSE IF S.eng.config.enableCache /\ r.ret.found
      THEN [S EXCEPT !.w = r.w, !.eng.stats.cacheHits = @ + 1,
                     !.promises[i] = Resolved(r.ret.data, FALSE),
                     !.runs[i].stage = "done"]
      ELSE IF S.eng.config.enableCache
      THEN performAnalysisBegin([S EXCEPT !.w = r.w, !.eng.stats.cacheMisses = @ + 1],
                                i, text.s, options, key, t)
      ELSE performAnalysisBegin(S, i, text.s, options, key, t)

\* AnalysisEngine.analyze up to its first await: validation, the cache key
\* (a TypeError once destroy() has set analysisCache to null), the cache lookup
\* and, on a miss, the start of performAnalysis
analyzeBegin(S, i, text, options, t) ==
  LET error == analyzeValidate(text, S.eng.config.maxTextLength)
      key == generateKey(text.s, options)
      r == get(S.w, key, t)
  IN  IF error # "" THEN [S EXCEPT !.promises[i] = Rejected(error), !.runs[i].stage = "done"]
      ELSE IF S.eng.destroyed
      THEN [S EXCEPT !.promises[i] = Rejected("TypeError"), !.runs[i].stage = "done"]
      ELSE IF S.eng.config.enableCache /\ r.ret.found
      THEN [S EXCEPT !.w = r.w, !.eng.stats.cacheHits = @ + 1,
                     !.promises[i] = Resolved(r.ret.data, TRUE),
                     !.runs[i].stage = "done"]
      ELSE IF S.eng.config.enableCache
      THEN performAnalysisBegin([S EXCEPT !.w = r.w, !.eng.stats.cacheMisses = @ + 1],
                                i, text.s, options, key, t)
      ELSE performAnalysisBegin(S, i, text.s, options, key, t)

\* AnalysisEngine.analyze after performAnalysis's await returned raw: the rest of
\* performAnalysis (a TypeError once destroy() has set issueDetector to null),
\* the cache write, updateStats and the result tagged fromCache = false
analyzeFinish(S, i, raw, t) ==
  LET run == S.runs[i]
      result == [issues |-> raw.issues, suggestions |-> TypeSummaries(raw.issues),
                 originalText |-> run.text]
      w2 == IF S.eng.config.enableCache
            THEN set(S.w, run.key, result, CacheTtlOf(run.options, S.w.c), t)
            ELSE S.w
  IN  IF S.eng.destroyed
      THEN [S EXCEPT !.promises[i] = Rejected("TypeError"), !.runs[i].stage = "done"]
      ELSE [S EXCEPT !.w = w2,
                     !.eng.stats.totalAnalyses = @ + 1,
                     !.eng.stats.totalIssuesFound = @ + Len(raw.issues),
                     !.eng.stats.analysisTimeSum = @ + (t - run.startTime),
                     !.promises[i] = Resolved(result, FALSE),
                     !.runs[i].stage = "done"]

\* the message of the error sendAnalysisRequest rejects with when the provider
\* fails, and the error analyzeText's catch throws in its place
ProviderError == "provider error"

analyzeTextCatch(message) == "Analysis failed: " \o message

\* a mutant of providerAnswer: a failure ends the worker's loop, the requests
\* still queued are left on the queue
providerAnswer_failureStops(S, answer, t) ==
  LET i == S.ta.current
      run == S.runs[i]
      combined == combineChunkResults(
                    parseAnalysisResponse(answer, run.text, Len(S.sent)), run.text)
      taKey == generateCacheKey(run.text, run.options)
      q == nextRequest(S.ta, S.sent)
      S1 == [S EXCEPT !.ta = q.ta, !.sent = q.sent]
  IN  IF answer.kind = "error"
      THEN [S EXCEPT !.ta.isProcessing = FALSE, !.ta.current = 0,
                     !.promises[i] = Rejected(analyzeTextCatch(ProviderError)),
                     !.runs[i].stage = "done"]
      ELSE analyzeFinish(
             [S1 EXCEPT !.ta.analysisCache = MapSet(@, [key |-> taKey, data |-> combined])],
             i, combined, t)

\* the provider answers the request in flight.  A completion: the chunk result
\* is parsed, analyzeText combines and caches it, and the engine's analyze
\* finishes.  A failure: analyzeText rethrows it as "Analysis failed: ..." and
\* the engine's analyze rejects with that error.  The queue worker goes on.
providerAnswer(S, answer, t) ==
  LET i == S.ta.current
      run == S.runs[i]
      combined == combineChunkResults(
                    parseAnalysisResponse(answer, run.text, Len(S.sent)), run.text)
      taKey == generateCacheKey(run.text, run.options)
      q == nextRequest(S.ta, S.sent)
      S1 == [S EXCEPT !.ta = q.ta, !.sent = q.sent]
  IN  IF answer.kind = "error"
      THEN [S1 EXCEPT !.promises[i] = Rejected(analyzeTextCatch(ProviderError)),
                      !.runs[i].stage = "done"]
      ELSE analyzeFinish(
             [S1 EXCEPT !.ta.analysisCache = MapSet(@, [key |-> taKey, data |-> combined])],
             i, combined, t)

(***************************************************************************)
(* State.                                                                  *)
(*   now           Date.now(), in milliseconds                             *)
(*   ac            the AnalysisCache object                                *)
(*   localStorage  the durable slot under persistKey                       *)
(*   ops           number of cache API calls made so far                   *)
(*   budget        number of cache API calls the run explores              *)
(*   lastOp        the last cache API call and what it returned            *)
(*   life          per key: the last set of that key on this cache object  *)
(*                 (time, ttl, data), and whether the entry has since been *)
(*                 removed other than by expiry                            *)
(*   accessSeq     per key: the ordinal of its last access (set or         *)
(*                 successful get) on this cache object, 0 if none         *)
(***************************************************************************)
VARIABLES now, ac, localStorage, ops, budget, lastOp, life, accessSeq,
          eng, activeAnalyses, timers, runs, promises, ta, sent, settled, callLog,
          probe, doc, ur, docBefore

\* the engine and its analyzer, with the history of the calls made to them
engineVars == <<eng, activeAnalyses, timers, runs, promises, ta, sent, settled, callLog>>
\* the history kept of the calls made to a cache used on its own
cacheHistory == <<ops, lastOp, life, accessSeq>>

\* probe: the arguments and the result of a function applied on its own;
\* doc: the target element's subtree; ur: the UnderlineRenderer; docBefore: the
\* subtree as it was before the first rendering
sideVars == <<probe, doc, ur, docBefore>>

mainVars == <<now, ac, localStorage, ops, budget, lastOp, life, accessSeq, engineVars>>

vars == <<mainVars, sideVars>>

\* no function is probed and no element is rendered
SideIdle == probe = <<>> /\ doc = <<>> /\ ur = <<>> /\ docBefore = <<>>

\* the code units of "a", "b", and of the property names used by the callers
TextA == <<97>>
TextB == <<98>>
OptionsNone == <<>>
\* { context: "d" }
OptionsContext == <<[k |-> <<99, 111, 110, 116, 101, 120, 116>>, v |-> [t |-> "str", s |-> <<100>>]]>>

\* the keys used by the cache specification: one text under two option sets, and
\* a second text
CacheKeys ==
  {generateKey(TextA, OptionsNone), generateKey(TextA, OptionsContext),
   generateKey(TextB, OptionsNone)}

\* constructor options of the model runs: maxSize (default 100) and maxAge
\* (default 30 minutes) are set small; a later instance on the same persistKey
\* may be built with another maxSize
SmallMaxSize == 2
MaxSizes == {SmallMaxSize, SmallMaxSize + 1}
SmallMaxAge == 2
\* the ttl option of set: 0 when not given
Ttls == {0, 1}
\* thresholds of invalidateByText: the default 0.8
Thresholds == {[num |-> 8, den |-> 10]}

World == [c |-> ac, ls |-> localStorage]

NoOp == [op |-> "none", key |-> <<>>, t |-> 0, found |-> FALSE, data |-> 0,
         evicted |-> <<>>, lruOk |-> TRUE]
NoLife == [live |-> FALSE, setAt |-> 0, ttl |-> 0, data |-> 0]

\* keys that an operation removed from the cache
Removed(before, after) == MapKeys(before.cache) \ MapKeys(after.cache)

\* life after an operation that removes entries other than by expiry
LifeAfterRemoval(before, after) ==
  [k \in CacheKeys |->
     IF k \in Removed(before, after) THEN [life[k] EXCEPT !.live = FALSE] ELSE life[k]]

\* a cache constructed with the given maxSize on an empty store
InitCacheWith(sizes, calls) ==
  /\ now = 0
  /\ localStorage = [present |-> FALSE, item |-> <<>>, mode |-> "ok"]
  /\ \E ms \in sizes : ac = NewCache(ms, SmallMaxAge, TRUE, localStorage, 0)
  /\ ops = 0
  /\ budget = calls
  /\ lastOp = NoOp
  /\ life = [k \in CacheKeys |-> NoLife]
  /\ accessSeq = [k \in CacheKeys |-> 0]
  /\ eng = NewEngine(TRUE, TRUE)
  /\ activeAnalyses = <<>>
  /\ timers = <<>>
  /\ runs = <<>>
  /\ promises = <<>>
  /\ ta = NewTextAnalyzer
  /\ sent = <<>>
  /\ settled = <<>>
  /\ callLog = <<>>
  /\ SideIdle

InitCache == InitCacheWith(MaxSizes, MaxOps)

\* the cache and the engine as constructed, with no call left to make: the
\* state of the specifications that apply one function on its own
MainIdle ==
  /\ now = 0
  /\ localStorage = [present |-> FALSE, item |-> <<>>, mode |-> "ok"]
  /\ ac = NewCache(SmallMaxSize, SmallMaxAge, TRUE, localStorage, 0)
  /\ ops = 0
  /\ budget = 0
  /\ lastOp = NoOp
  /\ life = [k \in CacheKeys |-> NoLife]
  /\ accessSeq = [k \in CacheKeys |-> 0]
  /\ eng = NewEngine(TRUE, TRUE)
  /\ activeAnalyses = <<>>
  /\ timers = <<>>
  /\ runs = <<>>
  /\ promises = <<>>
  /\ ta = NewTextAnalyzer
  /\ sent = <<>>
  /\ settled = <<>>
  /\ callLog = <<>>

\* time passes; a pending microtask runs before the clock is seen to advance
Tick ==
  /\ now < MaxTime
  /\ \A i \in 1..Len(runs) : runs[i].stage # "micro"
  /\ now' = now + 1
  /\ UNCHANGED <<sideVars, ac, localStorage, ops, budget, lastOp, life, accessSeq, engineVars>>

\* cache.get(key)
Get(key) ==
  /\ ops < budget
  /\ LET r == get(World, key, now)
     IN  /\ ac' = r.w.c
         /\ localStorage' = r.w.ls
         /\ lastOp' = [NoOp EXCEPT !.op = "get", !.key = key, !.t = now,
                                   !.found = r.ret.found,
                                   !.data = IF r.ret.found THEN r.ret.data ELSE 0]
         /\ accessSeq' = IF r.ret.found THEN [accessSeq EXCEPT ![key] = ops + 1]
                         ELSE accessSeq
  /\ ops' = ops + 1
  /\ UNCHANGED <<sideVars, now, budget, life, engineVars>>

\* cache.set(key, data, {ttl}); the data stored is the ordinal of the call
Set(key, ttl) ==
  /\ ops < budget
  /\ LET w2 == set(World, key, ops + 1, ttl, now)
         gone == Removed(ac, w2.c)
         evicted == IF gone = {} THEN <<>> ELSE CHOOSE k \in gone : TRUE
     IN  /\ ac' = w2.c
         /\ localStorage' = w2.ls
         /\ lastOp' = [NoOp EXCEPT !.op = "set", !.key = key, !.t = now,
                         !.evicted = evicted,
                         !.lruOk = \A k \in gone : \A j \in MapKeys(ac.cache) :
                                      accessSeq[k] <= accessSeq[j]]
         /\ life' = [LifeAfterRemoval(ac, w2.c) EXCEPT
                       ![key] = [live |-> TRUE, setAt |-> now,
                                 ttl |-> EffectiveTtl(ac, ttl), data |-> ops + 1]]
  /\ accessSeq' = [accessSeq EXCEPT ![key] = ops + 1]
  /\ ops' = ops + 1
  /\ UNCHANGED <<sideVars, now, budget, engineVars>>

\* cache.has(key)
Has(key) ==
  /\ ops < budget
  /\ LET r == has(World, key, now)
     IN  /\ ac' = r.w.c
         /\ localStorage' = r.w.ls
         /\ lastOp' = [NoOp EXCEPT !.op = "has", !.key = key, !.t = now,
                                   !.found = r.ret]
  /\ ops' = ops + 1
  /\ UNCHANGED <<sideVars, now, budget, life, accessSeq, engineVars>>

\* an operation that may remove entries and returns nothing the claims read,
\* recorded with its argument
RemovalOf(name, arg, w2) ==
  /\ ops < budget
  /\ ac' = w2.c
  /\ localStorage' = w2.ls
  /\ lastOp' = [NoOp EXCEPT !.op = name, !.key = arg, !.t = now]
  /\ life' = LifeAfterRemoval(ac, w2.c)
  /\ ops' = ops + 1
  /\ UNCHANGED <<sideVars, now, budget, accessSeq, engineVars>>

\* an operation that may remove entries and returns nothing the claims read
Removal(name, w2) ==
  /\ ops < budget
  /\ ac' = w2.c
  /\ localStorage' = w2.ls
  /\ lastOp' = [NoOp EXCEPT !.op = name, !.t = now]
  /\ life' = LifeAfterRemoval(ac, w2.c)
  /\ ops' = ops + 1
  /\ UNCHANGED <<sideVars, now, budget, accessSeq, engineVars>>

\* cache.delete(key)
Delete(key) == Removal("delete", delete(World, key, now).w)

\* cache.clear()
Clear == Removal("clear", clear(World))

\* cache.invalidateByText(text, threshold)
InvalidateByText(text, threshold) ==
  Removal("invalidateByText", invalidateByText(World, text, threshold, now))

\* cache.optimize()
Optimize == Removal("optimize", optimize(World, now))

\* cache.clearExpiredEntries(), called directly or by the cleanup interval
ClearExpiredEntries ==
  /\ ops < budget
  /\ LET w2 == clearExpiredEntries(World, now)
     IN  ac' = w2.c /\ localStorage' = w2.ls
  /\ lastOp' = [NoOp EXCEPT !.op = "clearExpiredEntries", !.t = now]
  /\ ops' = ops + 1
  /\ UNCHANGED <<sideVars, now, budget, life, accessSeq, engineVars>>

\* data passed to import: what export() returned on a cache holding all the keys
\* (a cache built with a larger maxSize), with or without its accessOrder part
ExportedEntries ==
  LET ks == SortStrings(CHOOSE s \in [1..Cardinality(CacheKeys) -> CacheKeys] :
                          Range(s) = CacheKeys)
  IN  [i \in 1..Len(ks) |-> [key |-> ks[i], data |-> 0, timestamp |-> 0,
                             expires |-> SmallMaxAge, accessCount |-> 1]]
ImportData ==
  {[cache |-> SubSeq(ExportedEntries, 1, n),
    accessOrder |-> IF withOrder
                    THEN [i \in 1..n |-> [key |-> ExportedEntries[i].key, time |-> 0]]
                    ELSE <<>>,
    stats |-> NewStats] : n \in {Cardinality(CacheKeys)}, withOrder \in BOOLEAN}

\* cache.import(data)
Import(data) ==
  /\ ops < budget
  /\ LET w2 == import(World, data)
     IN  ac' = w2.c /\ localStorage' = w2.ls
  /\ lastOp' = [NoOp EXCEPT !.op = "import", !.t = now]
  /\ life' = [k \in CacheKeys |-> NoLife]
  /\ accessSeq' = [k \in CacheKeys |-> 0]
  /\ ops' = ops + 1
  /\ UNCHANGED <<sideVars, now, budget, engineVars>>

\* the page is reloaded: cache.destroy() is not called, a new AnalysisCache is
\* constructed on the same persistKey
Reload(maxSize) ==
  /\ ops < budget
  /\ ac' = NewCache(maxSize, SmallMaxAge, TRUE, localStorage, now)
  /\ lastOp' = [NoOp EXCEPT !.op = "new", !.t = now]
  /\ life' = [k \in CacheKeys |-> NoLife]
  /\ accessSeq' = [k \in CacheKeys |-> 0]
  /\ ops' = ops + 1
  /\ UNCHANGED <<sideVars, now, budget, localStorage, engineVars>>

\* cache.destroy()
DestroyCache ==
  /\ ac.cleanupInterval
  /\ Removal("destroy", destroyCache(World))

NextCache ==
  \/ Tick
  \/ \E key \in CacheKeys : Get(key)
  \/ \E key \in CacheKeys, ttl \in Ttls : Set(key, ttl)
  \/ \E key \in CacheKeys : Has(key)
  \/ \E key \in CacheKeys : Delete(key)
  \/ Clear
  \/ \E text \in {TextA, TextB}, threshold \in Thresholds : InvalidateByText(text, threshold)
  \/ Optimize
  \/ ClearExpiredEntries
  \/ \E data \in ImportData : Import(data)
  \/ \E maxSize \in MaxSizes : Reload(maxSize)
  \/ DestroyCache

SpecCache == InitCache /\ [][NextCache]_vars

(***************************************************************************)
(* The expiry specification: one cache of capacity 1 under set, get, has,  *)
(* delete, the expiry sweep and the clock, over two keys.                  *)
(***************************************************************************)
TtlKeys == {generateKey(TextA, OptionsNone), generateKey(TextB, OptionsNone)}

InitTtl == InitCacheWith({1}, MaxTtlOps)

NextTtl ==
  \/ Tick
  \/ \E key \in TtlKeys : Get(key)
  \/ \E key \in TtlKeys, ttl \in Ttls : Set(key, ttl)
  \/ \E key \in TtlKeys : Has(key)
  \/ \E key \in TtlKeys : Delete(key)
  \/ ClearExpiredEntries

SpecTtl == InitTtl /\ [][NextTtl]_vars

(***************************************************************************)
(* Claims about AnalysisCache.                                             *)
(***************************************************************************)

\* C5: in every reachable state the cache holds at most maxSize entries
C5_SizeWithinMaxSize == Len(ac.cache) <= ac.maxSize

\* C6: when set evicts an entry to make room, no other entry of the cache was
\* accessed (set, or read by a successful get) longer ago than the evicted one
C6_EvictsLeastRecentlyAccessed ==
  (lastOp.op = "set" /\ lastOp.evicted # <<>>) => lastOp.lruOk

\* C7: a get or has of a key that was set with ttl T at time s, and not removed
\* since other than by expiry, finds the entry (get: with the data that was set)
\* when made before s + T, and finds nothing when made after s + T
C7_TtlExpiry ==
  (lastOp.op \in {"get", "has"} /\ life[lastOp.key].live) =>
     LET l == life[lastOp.key]
     IN  /\ lastOp.t < l.setAt + l.ttl =>
               lastOp.found /\ (lastOp.op = "get" => lastOp.data = l.data)
         /\ lastOp.t > l.setAt + l.ttl => ~lastOp.found

\* C7 witness: an entry set with ttl 1 has been read after its expiry, and found gone
C7_Witness ==
  /\ lastOp.op = "get" /\ life[lastOp.key].live /\ life[lastOp.key].ttl = 1
  /\ lastOp.t > life[lastOp.key].setAt + 1
  /\ ~lastOp.found



(***************************************************************************)
(* The engine's actions.                                                   *)
(***************************************************************************)
\* an engine constructed with a cache of cacheSize and cacheAge (defaults 100
\* entries, 30 minutes), set small
EngineMaxAge == 1

InitEngine(cacheFlags, realTimeFlags, calls) ==
  /\ now = 0
  /\ localStorage = [present |-> FALSE, item |-> <<>>, mode |-> "ok"]
  /\ ac = NewCache(SmallMaxSize, EngineMaxAge, TRUE, localStorage, 0)
  /\ ops = 0
  /\ budget = calls
  /\ lastOp = NoOp
  /\ life = [k \in CacheKeys |-> NoLife]
  /\ accessSeq = [k \in CacheKeys |-> 0]
  /\ \E c \in cacheFlags, r \in realTimeFlags : eng = NewEngine(c, r)
  /\ activeAnalyses = <<>>
  /\ timers = <<>>
  /\ runs = <<>>
  /\ promises = <<>>
  /\ ta = NewTextAnalyzer
  /\ sent = <<>>
  /\ settled = <<>>
  /\ callLog = <<>>
  /\ SideIdle

Bundle ==
  [eng |-> eng, w |-> World, ta |-> ta, runs |-> runs, promises |-> promises, sent |-> sent]

\* the bundle with the slots of a new call
BundleWithCall ==
  [Bundle EXCEPT !.runs = Append(runs, NoRun), !.promises = Append(promises, PendingPromise)]

Commit(S) ==
  /\ eng' = S.eng
  /\ ac' = S.w.c
  /\ localStorage' = S.w.ls
  /\ ta' = S.ta
  /\ runs' = S.runs
  /\ promises' = S.promises
  /\ sent' = S.sent

\* the calls whose promise a step settled, appended to the order of settlement
SettledBy(S) ==
  settled \o SeqFilter([i \in 1..Len(S.promises) |-> i],
                       {i \in 1..Len(S.promises) :
                          /\ S.promises[i].state # "pending"
                          /\ (i > Len(promises) \/ promises[i].state = "pending")})

\* the earlier call that last resolved with a fresh analysis of the same text
\* and options, 0 if there is none
PriorFresh(text, options) ==
  LET same == {n \in 1..Len(settled) :
                 /\ callLog[settled[n]].text = text
                 /\ callLog[settled[n]].options = options
                 /\ promises[settled[n]].state = "resolved"
                 /\ ~promises[settled[n]].fromCache}
  IN  IF same = {} THEN 0 ELSE settled[CHOOSE n \in same : \A m \in same : m <= n]

\* the cache holds an entry for the text and options whose ttl has not elapsed
EntryValid(text, options) ==
  /\ text.t = "str"
  /\ ~eng.destroyed
  /\ MapHas(ac.cache, generateKey(text.s, options))
  /\ now <= MapGet(ac.cache, generateKey(text.s, options)).expires

NewCallLog(kind, text, options) ==
  [kind |-> kind, aid |-> <<>>, text |-> text, options |-> options,
   chained |-> TRUE, superseded |-> FALSE, executed |-> FALSE,
   execText |-> JsNull, execOptions |-> <<>>,
   predatesDestroy |-> FALSE, firedLate |-> FALSE, answered |-> "none",
   entryValid |-> EntryValid(text, options), prior |-> PriorFresh(text, options)]

\* engine.analyze(text, options), up to its first await
Analyze(text, options) ==
  /\ Len(callLog) < budget
  /\ LET S == analyzeBegin(BundleWithCall, Len(callLog) + 1, text, options, now)
     IN  Commit(S) /\ settled' = SettledBy(S)
  /\ timers' = Append(timers, NoTimer)
  /\ callLog' = Append(callLog, [NewCallLog("analyze", text, options) EXCEPT
                                   !.executed = TRUE, !.execText = text,
                                   !.execOptions = options])
  /\ UNCHANGED <<sideVars, now, activeAnalyses, budget, cacheHistory>>

\* the microtask that continues an analyze whose analyzeText returned without a
\* request
Microtask(i) ==
  /\ runs[i].stage = "micro"
  /\ LET S == analyzeFinish(Bundle, i, runs[i].raw, now)
     IN  Commit(S) /\ settled' = SettledBy(S)
  /\ UNCHANGED <<sideVars, now, activeAnalyses, timers, callLog, budget, cacheHistory>>

\* clearTimeout(handle): a pending timer is cancelled, any other is left alone
clearTimeout(tm, handle) ==
  IF tm[handle].status = "pending" THEN [tm EXCEPT ![handle].status = "cleared"] ELSE tm

\* a mutant of scheduleRealTime: the timer of the entry it replaces is not cleared
scheduleRealTime_noClear(tm, active, i, text, options, t) ==
  LET aid == AnalysisIdOf(options, t)
  IN  [timers |-> Append(tm, [status |-> "pending", aid |-> aid,
                              text |-> text, options |-> options]),
       active |-> MapSet(active, [key |-> aid, timeout |-> i,
                                  text |-> text, options |-> options])]

\* a mutant of scheduleRealTime: every pending timer is cleared, whatever its id
scheduleRealTime_clearAll(tm, active, i, text, options, t) ==
  LET aid == AnalysisIdOf(options, t)
      cleared == [h \in 1..Len(tm) |-> clearTimeout(tm, h)[h]]
  IN  [timers |-> Append(cleared, [status |-> "pending", aid |-> aid,
                                   text |-> text, options |-> options]),
       active |-> MapSet(active, [key |-> aid, timeout |-> i,
                                  text |-> text, options |-> options])]

\* AnalysisEngine.analyzeRealTime, lines 128-153: the timer of the id's entry in
\* activeAnalyses is cleared, a new timer is set and the entry is replaced
scheduleRealTime(tm, active, i, text, options, t) ==
  LET aid == AnalysisIdOf(options, t)
      cleared == IF MapHas(active, aid)
                 THEN clearTimeout(tm, MapGet(active, aid).timeout) ELSE tm
  IN  [timers |-> Append(cleared, [status |-> "pending", aid |-> aid,
                                   text |-> text, options |-> options]),
       active |-> MapSet(active, [key |-> aid, timeout |-> i,
                                  text |-> text, options |-> options])]

\* the earlier calls of the id whose timer is pending
PendingOf(aid) ==
  {j \in 1..Len(timers) : timers[j].status = "pending" /\ timers[j].aid = aid}
\* the earlier calls of the id
CallsOf(aid) ==
  {j \in 1..Len(callLog) : callLog[j].kind = "realtime" /\ callLog[j].aid = aid}
LastOf(S) == CHOOSE j \in S : \A k \in S : k <= j

\* engine.analyzeRealTime(text, options)
AnalyzeRealTime(text, options) ==
  /\ Len(callLog) < budget
  /\ IF eng.config.enableRealTimeAnalysis
     THEN LET i == Len(callLog) + 1
              aid == AnalysisIdOf(options, now)
              r == scheduleRealTime(timers, activeAnalyses, i, text, options, now)
              marked == [j \in 1..Len(callLog) |->
                           IF j \in PendingOf(aid)
                           THEN [callLog[j] EXCEPT !.superseded = TRUE] ELSE callLog[j]]
          IN  /\ timers' = r.timers
              /\ activeAnalyses' = r.active
              /\ runs' = Append(runs, NoRun)
              /\ promises' = Append(promises, PendingPromise)
              /\ callLog' = Append(marked,
                   [NewCallLog("realtime", text, options) EXCEPT
                      !.aid = aid,
                      !.chained = (CallsOf(aid) = {} \/
                                   (LastOf(CallsOf(aid)) \in PendingOf(aid) /\
                                    callLog[LastOf(CallsOf(aid))].chained))])
              /\ UNCHANGED <<eng, ac, localStorage, ta, sent, settled>>
     ELSE /\ LET S == analyzeBegin(BundleWithCall, Len(callLog) + 1, text, options, now)
             IN  Commit(S) /\ settled' = SettledBy(S)
          /\ timers' = Append(timers, NoTimer)
          /\ callLog' = Append(callLog, [NewCallLog("analyze", text, options) EXCEPT
                                           !.executed = TRUE, !.execText = text,
                                           !.execOptions = options])
          /\ UNCHANGED activeAnalyses
  /\ UNCHANGED <<sideVars, now, budget, cacheHistory>>

\* the debounce timer of call h fires (timers of one delay fire in the order
\* they were set): analyze runs with the text and options of the closure; when
\* it settles, the id's entry is deleted from activeAnalyses
TimerFire(h) ==
  /\ timers[h].status = "pending"
  /\ \A j \in 1..Len(timers) : timers[j].status = "pending" => h <= j
  /\ \A i \in 1..Len(runs) : runs[i].stage # "micro"
  /\ LET S1 == analyzeBegin(Bundle, h, timers[h].text, timers[h].options, now)
         S2 == IF S1.runs[h].stage = "micro"
               THEN analyzeFinish(S1, h, S1.runs[h].raw, now) ELSE S1
     IN  /\ Commit(S2)
         /\ settled' = SettledBy(S2)
         /\ activeAnalyses' = IF S2.runs[h].stage = "done"
                              THEN MapDelete(activeAnalyses, timers[h].aid)
                              ELSE activeAnalyses
  /\ timers' = [timers EXCEPT ![h].status = "fired"]
  /\ callLog' = [callLog EXCEPT ![h].executed = TRUE,
                                ![h].execText = timers[h].text,
                                ![h].execOptions = timers[h].options,
                                ![h].firedLate = callLog[h].predatesDestroy]
  /\ UNCHANGED <<sideVars, now, budget, cacheHistory>>

\* the provider's answers: a completion holding a JSON object without issues or
\* with one issue, a completion without JSON, and a failure
IssueOne == [type |-> "grammar", severity |-> "medium", startIndex |-> 0, endIndex |-> 1]
Answers ==
  {[kind |-> "json", issues |-> <<>>], [kind |-> "json", issues |-> <<IssueOne>>],
   [kind |-> "text", issues |-> <<>>], [kind |-> "error", issues |-> <<>>]}

\* the provider answers the request in flight; an analysis started by a timer
\* then deletes its id's entry from activeAnalyses
ProviderAnswer(answer) ==
  /\ ta.current # 0
  /\ \A i \in 1..Len(runs) : runs[i].stage # "micro"
  /\ LET S == providerAnswer(Bundle, answer, now)
     IN  Commit(S) /\ settled' = SettledBy(S)
  /\ activeAnalyses' = IF timers[ta.current].status = "fired"
                       THEN MapDelete(activeAnalyses, timers[ta.current].aid)
                       ELSE activeAnalyses
  /\ callLog' = [callLog EXCEPT ![ta.current].answered = answer.kind]
  /\ UNCHANGED <<sideVars, now, timers, budget, cacheHistory>>

\* engine.reset(): the cache and activeAnalyses are cleared (no timer is), the
\* statistics are zeroed.  On a destroyed engine it throws at its first statement.
Reset ==
  /\ ~eng.destroyed
  /\ LET w2 == clear(World)
     IN  ac' = w2.c /\ localStorage' = w2.ls
  /\ activeAnalyses' = <<>>
  /\ eng' = [eng EXCEPT !.stats = NewEngineStats]
  /\ UNCHANGED <<sideVars, now, timers, runs, promises, ta, sent, settled, callLog, budget, cacheHistory>>

\* the timers of the entries of activeAnalyses, cleared
ClearActiveTimers(tm, active) ==
  [h \in 1..Len(tm) |->
     IF \E n \in 1..Len(active) : active[n].timeout = h
     THEN clearTimeout(tm, h)[h] ELSE tm[h]]

\* engine.destroy(): the timers of activeAnalyses are cleared, the map is
\* emptied, the cache is destroyed and the components are set to null
Destroy ==
  /\ timers' = ClearActiveTimers(timers, activeAnalyses)
  /\ activeAnalyses' = <<>>
  /\ LET w2 == IF eng.destroyed THEN World ELSE destroyCache(World)
     IN  ac' = w2.c /\ localStorage' = w2.ls
  /\ eng' = [eng EXCEPT !.destroyed = TRUE]
  /\ callLog' = [j \in 1..Len(callLog) |-> [callLog[j] EXCEPT !.predatesDestroy = TRUE]]
  /\ UNCHANGED <<sideVars, now, runs, promises, ta, sent, settled, budget, cacheHistory>>

\* engine.invalidateCache(text, threshold)
InvalidateCache(text, threshold) ==
  /\ ~eng.destroyed
  /\ LET w2 == invalidateByText(World, text, threshold, now)
     IN  ac' = w2.c /\ localStorage' = w2.ls
  /\ UNCHANGED <<sideVars, now, eng, activeAnalyses, timers, runs, promises, ta, sent, settled,
                 callLog, budget, cacheHistory>>

\* { analysisId: "x" } and { analysisId: "y" }
OptionsIdX == <<[k |-> AnalysisIdName, v |-> [t |-> "str", s |-> <<120>>]]>>
OptionsIdY == <<[k |-> AnalysisIdName, v |-> [t |-> "str", s |-> <<121>>]]>>

(***************************************************************************)
(* The debounce specification: analyzeRealTime calls under two ids, timer  *)
(* firings and provider answers.                                           *)
(***************************************************************************)
RealTimeTexts == {JsStr(TextA), JsStr(TextB)}
RealTimeOptions == {OptionsIdX, OptionsIdY}
RealTimeAnswers == {a \in Answers : a.kind \in {"json", "error"} /\ a.issues = <<>>}

InitRealTime == InitEngine({TRUE}, {TRUE}, MaxCalls)

NextRealTime ==
  \/ \E text \in RealTimeTexts, options \in RealTimeOptions : AnalyzeRealTime(text, options)
  \/ \E h \in 1..Len(timers) : TimerFire(h)
  \/ \E answer \in RealTimeAnswers : ProviderAnswer(answer)

SpecRealTime == InitRealTime /\ [][NextRealTime]_vars

(***************************************************************************)
(* The teardown specification: the debounce specification with reset() and *)
(* destroy().                                                              *)
(***************************************************************************)
NextTeardown ==
  \/ \E text \in RealTimeTexts, options \in RealTimeOptions : AnalyzeRealTime(text, options)
  \/ \E h \in 1..Len(timers) : TimerFire(h)
  \/ \E answer \in RealTimeAnswers : ProviderAnswer(answer)
  \/ Reset
  \/ Destroy

SpecTeardown == InitRealTime /\ [][NextTeardown]_vars

(***************************************************************************)
(* The analysis specification: analyze calls with valid and invalid texts, *)
(* on an engine whose real-time analysis is switched off, their            *)
(* microtasks, provider answers and the clock.                             *)
(***************************************************************************)
LongText == [i \in 1..(SmallMaxTextLength + 1) |-> 97]
AnalyzeTexts == {JsStr(TextA), JsStr(<<>>), JsNull, JsNum(5), JsStr(LongText)}
AnalyzeAnswers == {a \in Answers : a.kind \in {"text", "error"} \/ a.issues # <<>>}

InitAnalyze == InitEngine({TRUE}, {FALSE}, MaxAnalyzeCalls)

NextAnalyze ==
  \/ \E text \in AnalyzeTexts : Analyze(text, OptionsNone)
  \/ \E text \in {JsStr(TextB)} : AnalyzeRealTime(text, OptionsNone)
  \/ \E i \in 1..Len(runs) : Microtask(i)
  \/ \E answer \in AnalyzeAnswers : ProviderAnswer(answer)
  \/ Tick

SpecAnalyze == InitAnalyze /\ [][NextAnalyze]_vars


(***************************************************************************)
(* Claims about the debounce of analyzeRealTime.                           *)
(***************************************************************************)
\* the analysisIds the calls so far have used
IdsUsed == {callLog[j].aid : j \in {k \in 1..Len(callLog) : callLog[k].kind = "realtime"}}

\* the calls of the id so far are one burst: each but the first was made while
\* the timer of the one before it was pending
Burst(aid) == CallsOf(aid) # {} /\ callLog[LastOf(CallsOf(aid))].chained

\* C1: when two or more analyzeRealTime calls with one analysisId are each made
\* before the timer of the previous one has fired, none but the last is ever
\* executed, and once no timer of the id is pending analyze has been executed
\* once, with the text and options of the last call
C1_BurstRunsLastOnly ==
  \A aid \in IdsUsed :
    (Burst(aid) /\ Cardinality(CallsOf(aid)) >= 2) =>
      LET last == LastOf(CallsOf(aid))
      IN  /\ \A j \in CallsOf(aid) \ {last} : ~callLog[j].executed
          /\ PendingOf(aid) \subseteq {last}
          /\ PendingOf(aid) = {} => callLog[last].executed
          /\ callLog[last].executed =>
               /\ callLog[last].execText = callLog[last].text
               /\ callLog[last].execOptions = callLog[last].options

\* a burst of three calls with changing texts whose last call alone was executed
C1_Witness ==
  \E aid \in IdsUsed :
    /\ Burst(aid)
    /\ Cardinality(CallsOf(aid)) = 3
    /\ callLog[1].text # callLog[3].text
    /\ callLog[3].executed
    /\ callLog[3].execText = callLog[3].text
    /\ timers[1].status = "cleared" /\ timers[2].status = "cleared"

\* C2: a call that was followed by a later call with the same analysisId while
\* its timer was pending is never executed
C2_SupersededNeverRuns ==
  \A j \in 1..Len(callLog) : callLog[j].superseded => ~callLog[j].executed

\* C3: no timer set before destroy() fires after it
C3_NoTimerFiresAfterDestroy ==
  \A j \in 1..Len(callLog) : ~callLog[j].firedLate

\* C4: a call with one analysisId leaves the timers and the activeAnalyses entries
\* of the other ids as they are; the timer of the last call of each id is never
\* cleared, it runs analyze with that call's text, and a result it resolves with
\* is the result for that text
C4_CallLeavesOtherIds ==
  LET n == Len(callLog')
  IN  (n = Len(callLog) + 1 /\ callLog'[n].kind = "realtime") =>
        /\ \A h \in 1..Len(timers) :
             timers[h].aid # callLog'[n].aid => timers'[h] = timers[h]
        /\ \A e \in Range(activeAnalyses) :
             e.key # callLog'[n].aid => e \in Range(activeAnalyses')
C4_LastOfEachIdRuns ==
  \A aid \in IdsUsed :
    LET last == LastOf(CallsOf(aid))
    IN  /\ timers[last].status \in {"pending", "fired"}
        /\ timers[last].status = "fired" =>
             /\ callLog[last].executed
             /\ callLog[last].execText = callLog[last].text
        /\ promises[last].state = "resolved" =>
             promises[last].originalText = callLog[last].text.s
C4_DistinctIdsIndependent == [][C4_CallLeavesOtherIds]_vars /\ []C4_LastOfEachIdRuns

\* two ids used in turn with different texts, both resolved with their own text
C4_Witness ==
  /\ Cardinality(IdsUsed) = 2
  /\ \A aid \in IdsUsed :
       /\ promises[LastOf(CallsOf(aid))].state = "resolved"
       /\ promises[LastOf(CallsOf(aid))].originalText = callLog[LastOf(CallsOf(aid))].text.s
  /\ \E j, k \in 1..Len(callLog) : callLog[j].text # callLog[k].text

(***************************************************************************)
(* Claims about analyze.                                                   *)
(***************************************************************************)
\* C8: an analyze call made after a call with the same text and options has
\* resolved, while the cache holds that entry unexpired, resolves with
\* fromCache = true and the issues of that earlier call, without a request to
\* the provider; a call that resolves without such an entry has fromCache = false
C8_SecondCallFromCache ==
  \A i \in 1..Len(callLog) :
    /\ (callLog[i].kind = "analyze" /\ callLog[i].prior # 0 /\ callLog[i].entryValid) =>
         /\ promises[i].state = "resolved"
         /\ promises[i].fromCache
         /\ promises[i].issues = promises[callLog[i].prior].issues
         /\ i \notin Range(sent)
    /\ (promises[i].state = "resolved" /\ ~callLog[i].entryValid) => ~promises[i].fromCache

\* a second call answered from the cache with the one issue the first call found
C8_Witness ==
  \E i \in 1..Len(callLog) :
    /\ callLog[i].prior # 0 /\ callLog[i].entryValid
    /\ promises[i].fromCache
    /\ Len(promises[i].issues) = 1
    /\ Len(sent) = 1

\* C9: analyze("") resolves with no issues and no suggestions, without a request
\* to the provider
C9_EmptyTextResolvesEmpty ==
  \A i \in 1..Len(callLog) :
    (callLog[i].kind = "analyze" /\ callLog[i].text = JsStr(<<>>)) =>
      /\ promises[i].state = "resolved"
      /\ promises[i].issues = <<>>
      /\ promises[i].suggestions = <<>>
      /\ i \notin Range(sent)

\* a text that is no string, or longer than config.maxTextLength
InvalidInput(text) ==
  \/ text.t # "str"
  \/ text.t = "str" /\ Len(text.s) > eng.config.maxTextLength

\* C10: analyze with a text that is no string or is longer than maxTextLength
\* rejects with a validation error and leaves the cache, its counters, the
\* engine statistics and the provider untouched
C10_InvalidCallStep ==
  LET n == Len(callLog')
  IN  (n = Len(callLog) + 1 /\ callLog'[n].kind = "analyze" /\
       InvalidInput(callLog'[n].text)) =>
        /\ promises'[n].state = "rejected"
        /\ promises'[n].error \in {"Invalid text input", "Text too long"}
        /\ ac' = ac /\ localStorage' = localStorage
        /\ eng' = eng /\ ta' = ta /\ sent' = sent
C10_InvalidInputRejected == [][C10_InvalidCallStep]_vars

\* after a valid call has filled the cache, an overlong text was rejected
C10_Witness ==
  /\ Len(ac.cache) > 0
  /\ eng.stats.cacheMisses > 0
  /\ eng.stats.totalAnalyses > 0
  /\ \E i \in 2..Len(callLog) :
       /\ callLog[i].text = JsStr(LongText)
       /\ promises[i].error = "Text too long"


C12_ProviderErrorUnmodified ==
  \A i \in 1..Len(callLog) :
    callLog[i].answered = "error" =>
      /\ promises[i].state = "rejected"
      /\ promises[i].error = ProviderError


(***************************************************************************)
(* The parsing specification: one text and one issue reported by the       *)
(* provider with any pair of indices around the text's bounds, parsed and  *)
(* combined as analyzeText does for a text of one chunk.  An index the     *)
(* provider left out reads as 0 (issue.startIndex || 0).                   *)
(***************************************************************************)
MaxParseLen == 3
ParseTexts == {[i \in 1..n |-> 96 + i] : n \in 2..MaxParseLen}
ParseIndices == (0 - 1)..(MaxParseLen + 1)

ProviderIssue(a, b) ==
  [type |-> "grammar", severity |-> "warning", startIndex |-> a, endIndex |-> b]

InitParse ==
  /\ MainIdle
  /\ doc = <<>> /\ ur = <<>> /\ docBefore = <<>>
  /\ \E text \in ParseTexts, a, b \in ParseIndices :
       probe = [text |-> text, answer |-> [kind |-> "json", issues |-> <<ProviderIssue(a, b)>>],
                done |-> FALSE, issues |-> <<>>]

\* analyzeText for the probed text once the provider has answered: the chunk is
\* parsed and the chunk results are combined
ParseAndCombine ==
  /\ ~probe.done
  /\ probe' = [probe EXCEPT
                 !.done = TRUE,
                 !.issues = combineChunkResults(
                              parseAnalysisResponse(probe.answer, probe.text, 1),
                              probe.text).issues]
  /\ UNCHANGED <<mainVars, doc, ur, docBefore>>

NextParse == ParseAndCombine

SpecParse == InitParse /\ [][NextParse]_vars

\* C13: every issue analyzeText returns for a text of length L has
\* 0 <= startIndex < endIndex <= L and originalText equal to the text between the
\* two indices, whatever indices the provider reported
C13_IssueSpansValid ==
  probe.done =>
    \A i \in 1..Len(probe.issues) :
      LET issue == probe.issues[i]
      IN  /\ 0 <= issue.startIndex
          /\ issue.startIndex < issue.endIndex
          /\ issue.endIndex <= Len(probe.text)
          /\ issue.originalText = SubSeq(probe.text, issue.startIndex + 1, issue.endIndex)


\* the requests sent to the provider and not answered yet
InFlight == {k \in 1..Len(sent) : callLog[sent[k]].answered = "none"}

normalizeIssueType(type) ==
  IF type \in {"grammar", "grammatical"} THEN "grammar"
  ELSE IF type = "spelling" THEN "spelling"
  ELSE "style"

\* IssueDetector.validateAndNormalizeIssue: parseInt(x) || default, then the
\* start is brought into 0..length-1 and the end into start+1..length (or start+1).
\* generateIssueId is the position of the raw issue
validateAndNormalizeIssue(rawIssue, originalText, ordinal) ==
  LET min(a, b) == IF a < b THEN a ELSE b
      max(a, b) == IF a > b THEN a ELSE b
      start0 == rawIssue.startIndex
      end0 == IF rawIssue.endIndex # 0 THEN rawIssue.endIndex ELSE start0 + 1
      startIndex == max(0, min(start0, Len(originalText) - 1))
      endIndex == max(startIndex + 1, min(end0, Len(originalText)))
  IN  [id |-> ordinal, type |-> normalizeIssueType(rawIssue.type),
       startIndex |-> startIndex, endIndex |-> endIndex,
       originalText |-> Substring(originalText, startIndex, endIndex)]

\* a mutant of issueKey: the type is left out of the key
issueKey_noType(issue) ==
  ToString(issue.startIndex) \o "-" \o ToString(issue.endIndex)

\* the key deduplicateIssues builds: `${startIndex}-${endIndex}-${type}`
issueKey(issue) ==
  ToString(issue.startIndex) \o "-" \o ToString(issue.endIndex) \o "-" \o issue.type

RECURSIVE deduplicateFrom(_, _, _, _)
\* the loop of deduplicateIssues from issue n on, with the keys seen and the
\* issues kept so far
deduplicateFrom(issues, n, seen, deduplicated) ==
  IF n > Len(issues) THEN deduplicated
  ELSE IF issueKey(issues[n]) \in seen
  THEN deduplicateFrom(issues, n + 1, seen, deduplicated)
  ELSE deduplicateFrom(issues, n + 1, seen \cup {issueKey(issues[n])},
                       Append(deduplicated, issues[n]))

\* IssueDetector.deduplicateIssues
deduplicateIssues(issues) == deduplicateFrom(issues, 1, {}, <<>>)

\* IssueDetector.processIssues: every raw issue normalised, duplicates removed
processIssues(rawIssues, originalText) ==
  deduplicateIssues([n \in 1..Len(rawIssues) |->
                       validateAndNormalizeIssue(rawIssues[n], originalText, n)])

(***************************************************************************)
(* The deduplication specification: a list of raw issues over a text of    *)
(* three characters, processed as parseIssues does once the response is    *)
(* parsed.  An index the response left out reads as 0.                     *)
(***************************************************************************)
MaxRawIssues == 3
DedupText == <<97, 98, 99>>
RawIssues ==
  {[startIndex |-> a, endIndex |-> b, type |-> ty] :
     a \in {0, 1}, b \in {0, 2}, ty \in {"grammar", "grammatical", "style"}}
RECURSIVE ListsOf(_, _)
ListsOf(S, n) ==
  IF n = 0 THEN {<<>>}
  ELSE ListsOf(S, n - 1) \cup {Append(l, x) : l \in {m \in ListsOf(S, n - 1) : Len(m) = n - 1}, x \in S}

InitDedup ==
  /\ MainIdle
  /\ doc = <<>> /\ ur = <<>> /\ docBefore = <<>>
  /\ \E rawIssues \in ListsOf(RawIssues, MaxRawIssues) :
       probe = [text |-> DedupText, rawIssues |-> rawIssues, done |-> FALSE, issues |-> <<>>]

\* parseIssues after the response is parsed: processIssues on the raw issues
ProcessIssues ==
  /\ ~probe.done
  /\ probe' = [probe EXCEPT !.done = TRUE,
                            !.issues = processIssues(probe.rawIssues, probe.text)]
  /\ UNCHANGED <<mainVars, doc, ur, docBefore>>

NextDedup == ProcessIssues

SpecDedup == InitDedup /\ [][NextDedup]_vars

\* the position and type that make two issues the same issue
IssueTriple(issue) == <<issue.startIndex, issue.endIndex, issue.type>>

\* C15: the list parseIssues returns holds no two issues with the same
\* startIndex, endIndex and type; of the normalised issues it holds, in their
\* order, exactly the first of each such triple
C15_NoDuplicateIssues ==
  probe.done =>
    LET out == probe.issues
        normalised == [n \in 1..Len(probe.rawIssues) |->
                         validateAndNormalizeIssue(probe.rawIssues[n], probe.text, n)]
        firsts == {n \in 1..Len(normalised) :
                     \A m \in 1..(n - 1) : IssueTriple(normalised[m]) # IssueTriple(normalised[n])}
    IN  /\ \A i, j \in 1..Len(out) : i # j => IssueTriple(out[i]) # IssueTriple(out[j])
        /\ out = SeqFilter(normalised, {normalised[n] : n \in firsts})

\* three raw issues of which the third normalises to the first's triple and is
\* dropped, the second differing from the first in its type only
C15_Witness ==
  /\ probe.done
  /\ Len(probe.rawIssues) = 3
  /\ probe.rawIssues[1].type = "grammar" /\ probe.rawIssues[3].type = "grammatical"
  /\ Len(probe.issues) = 2
  /\ probe.issues[1].id = 1 /\ probe.issues[2].id = 2
  /\ probe.issues[1].startIndex = probe.issues[2].startIndex
  /\ probe.issues[1].endIndex = probe.issues[2].endIndex


(***************************************************************************)
(* UnderlineRenderer and the part of the DOM it works on.  A node is a     *)
(* Text node with its data or an element with its children; the target     *)
(* element is the root.  A marker span is an element with tag "span" (class *)
(* feelly-underline); id is the identity of a span the renderer created, 0 *)
(* for every other node.  A position in the tree is the path of child      *)
(* indices from the root.                                                  *)
(***************************************************************************)
TextNode(data) == [tag |-> "#text", id |-> 0, data |-> data, kids |-> <<>>]
ElementNode(tag, id, kids) == [tag |-> tag, id |-> id, data |-> <<>>, kids |-> kids]
IsText(n) == n.tag = "#text"
\* classList.contains('feelly-underline')
IsMarker(n) == n.tag = "span"

RECURSIVE NodeAt(_, _)
NodeAt(n, path) == IF path = <<>> THEN n ELSE NodeAt(n.kids[Head(path)], Tail(path))

Front(path) == SubSeq(path, 1, Len(path) - 1)
Last(path) == path[Len(path)]

RECURSIVE SpliceAt(_, _, _)
\* the tree with the node at the path replaced by a list of nodes
SpliceAt(n, path, nodes) ==
  IF Len(path) = 1
  THEN [n EXCEPT !.kids = SubSeq(@, 1, path[1] - 1) \o nodes \o SubSeq(@, path[1] + 1, Len(@))]
  ELSE [n EXCEPT !.kids[Head(path)] = SpliceAt(@, Tail(path), nodes)]

\* the tree with the node at the path replaced by one node
ReplaceAt(n, path, node) == IF path = <<>> THEN node ELSE SpliceAt(n, path, <<node>>)

\* acceptNode of getTextNodes: a Text node is rejected when its parent element
\* is a marker span and when it is empty or white space only
AcceptNode(node, parent) == ~IsMarker(parent) /\ ~IsBlank(node.data)

RECURSIVE TextPathsFrom(_, _, _, _)
\* the paths of the Text nodes under element n from its child k on, in document
\* order: all of them, or those the filter of getTextNodes accepts
TextPathsFrom(n, prefix, k, all) ==
  IF k > Len(n.kids) THEN <<>>
  ELSE LET kid == n.kids[k]
           here == IF IsText(kid)
                   THEN IF all \/ AcceptNode(kid, n) THEN <<Append(prefix, k)>> ELSE <<>>
                   ELSE TextPathsFrom(kid, Append(prefix, k), 1, all)
       IN  here \o TextPathsFrom(n, prefix, k + 1, all)

\* UnderlineRenderer.getTextNodes: the accepted Text nodes of the TreeWalker
getTextNodes(element) == TextPathsFrom(element, <<>>, 1, FALSE)

\* the data of every Text node of the tree, in document order
TextNodeData(element) ==
  LET paths == TextPathsFrom(element, <<>>, 1, TRUE)
  IN  [k \in 1..Len(paths) |-> NodeAt(element, paths[k]).data]

RECURSIVE Concat(_)
Concat(seqs) == IF seqs = <<>> THEN <<>> ELSE Head(seqs) \o Concat(Tail(seqs))
\* element.textContent
TextContent(element) == Concat(TextNodeData(element))

NoRange == [ok |-> FALSE, sp |-> <<>>, so |-> 0, ep |-> <<>>, eo |-> 0]

RECURSIVE RangeLoop(_, _, _, _, _, _, _)
\* the loop of createRangeFromIndices from text node k on; r holds the start
\* found so far (sp = <<>> while startNode is null)
RangeLoop(element, textNodes, k, currentIndex, startIndex, endIndex, r) ==
  IF k > Len(textNodes) THEN NoRange
  ELSE LET nodeEnd == currentIndex + Len(NodeAt(element, textNodes[k]).data)
           r1 == IF r.sp = <<>> /\ startIndex >= currentIndex /\ startIndex <= nodeEnd
                 THEN [r EXCEPT !.sp = textNodes[k], !.so = startIndex - currentIndex]
                 ELSE r
       IN  IF endIndex >= currentIndex /\ endIndex <= nodeEnd
           THEN IF r1.sp = <<>> THEN NoRange
                ELSE [r1 EXCEPT !.ok = TRUE, !.ep = textNodes[k],
                                !.eo = endIndex - currentIndex]
           ELSE RangeLoop(element, textNodes, k + 1, nodeEnd, startIndex, endIndex, r1)

\* UnderlineRenderer.createRangeFromIndices: the range's boundary points as
\* (path of the Text node, offset), or no range
createRangeFromIndices(element, textNodes, startIndex, endIndex) ==
  RangeLoop(element, textNodes, 1, 0, startIndex, endIndex, NoRange)


RECURSIVE ExtractTail(_, _, _)
\* Range.extractContents on the start side: node is on the way from the common
\* ancestor to the start Text node (path and offset within node).  keep is what
\* stays in the tree; frag is the clone that goes to the fragment, holding the
\* part of the node after the start point (the children after the way are moved)
ExtractTail(node, path, offset) ==
  IF path = <<>>
  THEN [keep |-> [node EXCEPT !.data = SubSeq(@, 1, offset)],
        frag |-> TextNode(SubSeq(node.data, offset + 1, Len(node.data)))]
  ELSE LET c == Head(path)
           r == ExtractTail(node.kids[c], Tail(path), offset)
       IN  [keep |-> [node EXCEPT !.kids = SubSeq(@, 1, c - 1) \o <<r.keep>>],
            frag |-> ElementNode(node.tag, 0,
                                 <<r.frag>> \o SubSeq(node.kids, c + 1, Len(node.kids)))]

RECURSIVE ExtractHead(_, _, _)
\* Range.extractContents on the end side: the clone holds the part of the node
\* before the end point
ExtractHead(node, path, offset) ==
  IF path = <<>>
  THEN [keep |-> [node EXCEPT !.data = SubSeq(@, offset + 1, Len(@))],
        frag |-> TextNode(SubSeq(node.data, 1, offset))]
  ELSE LET c == Head(path)
           r == ExtractHead(node.kids[c], Tail(path), offset)
       IN  [keep |-> [node EXCEPT !.kids = <<r.keep>> \o SubSeq(@, c + 1, Len(@))],
            frag |-> ElementNode(node.tag, 0, SubSeq(node.kids, 1, c - 1) \o <<r.frag>>)]

RECURSIVE CommonPrefix(_, _)
CommonPrefix(p, q) ==
  IF p = <<>> \/ q = <<>> \/ Head(p) # Head(q) THEN <<>>
  ELSE <<Head(p)>> \o CommonPrefix(Tail(p), Tail(q))

\* range.surroundContents(span), and range.extractContents() / span.appendChild /
\* range.insertNode(span) where surroundContents throws or is not tried: the
\* outcome in the tree is the same.  Within one Text node the node is cut at the
\* range's start (the cut is made even at offset 0 or at the end) and the span
\* with the extracted text goes between the two parts; across nodes the span goes
\* after the common ancestor's child on the start side
WrapRange(element, range, id) ==
  IF range.sp = range.ep
  THEN LET node == NodeAt(element, range.sp)
           head == [node EXCEPT !.data = SubSeq(@, 1, range.so)]
           mid == TextNode(SubSeq(node.data, range.so + 1, range.eo))
           rest == TextNode(SubSeq(node.data, range.eo + 1, Len(node.data)))
       IN  SpliceAt(element, range.sp, <<head, ElementNode("span", id, <<mid>>), rest>>)
  ELSE LET P == CommonPrefix(range.sp, range.ep)
           anc == NodeAt(element, P)
           a == range.sp[Len(P) + 1]
           b == range.ep[Len(P) + 1]
           t == ExtractTail(anc.kids[a], SubSeq(range.sp, Len(P) + 2, Len(range.sp)), range.so)
           h == ExtractHead(anc.kids[b], SubSeq(range.ep, Len(P) + 2, Len(range.ep)), range.eo)
           span == ElementNode("span", id,
                               <<t.frag>> \o SubSeq(anc.kids, a + 1, b - 1) \o <<h.frag>>)
       IN  ReplaceAt(element, P,
             [anc EXCEPT !.kids = SubSeq(@, 1, a - 1) \o <<t.keep, span, h.keep>>
                                  \o SubSeq(@, b + 1, Len(@))])

RECURSIVE normalize(_)
RECURSIVE NormalizeKids(_, _, _)
\* the children of a normalised element from child k on, after the children acc
NormalizeKids(kids, k, acc) ==
  IF k > Len(kids) THEN acc
  ELSE IF ~IsText(kids[k]) THEN NormalizeKids(kids, k + 1, Append(acc, normalize(kids[k])))
  ELSE IF kids[k].data = <<>> THEN NormalizeKids(kids, k + 1, acc)
  ELSE IF acc # <<>> /\ IsText(acc[Len(acc)])
  THEN NormalizeKids(kids, k + 1, [acc EXCEPT ![Len(acc)].data = @ \o kids[k].data])
  ELSE NormalizeKids(kids, k + 1, Append(acc, kids[k]))

\* Node.normalize: in the whole subtree empty Text nodes are removed and
\* adjacent Text nodes are merged
normalize(n) == IF IsText(n) THEN n ELSE [n EXCEPT !.kids = NormalizeKids(@, 1, <<>>)]

RECURSIVE PathsOfId(_, _, _, _)
\* the paths of the elements with the identity id under n, from child k on
PathsOfId(n, prefix, k, id) ==
  IF k > Len(n.kids) THEN <<>>
  ELSE LET kid == n.kids[k]
           here == IF IsText(kid) THEN <<>>
                   ELSE (IF kid.id = id THEN <<Append(prefix, k)>> ELSE <<>>)
                        \o PathsOfId(kid, Append(prefix, k), 1, id)
       IN  here \o PathsOfId(n, prefix, k + 1, id)

\* UnderlineRenderer.removeUnderline on the tree: the span's children take its
\* place and its parent is normalised
removeUnderline(element, id) ==
  LET found == PathsOfId(element, <<>>, 1, id)
      path == found[1]
      moved == SpliceAt(element, path, NodeAt(element, path).kids)
  IN  IF found = <<>> THEN element
      ELSE ReplaceAt(moved, Front(path), normalize(NodeAt(moved, Front(path))))

RECURSIVE RemoveAll(_, _)
RemoveAll(element, ids) ==
  IF ids = <<>> THEN element ELSE RemoveAll(removeUnderline(element, Head(ids)), Tail(ids))

\* the renderer: activeUnderlines.get(target) as the list of the spans' identities
\* in insertion order, issueMap as the list of (span, issue), and the number of
\* spans created so far (the identity of the next one)
NewRenderer == [activeUnderlines |-> <<>>, issueMap |-> <<>>, created |-> 0]

\* UnderlineRenderer.clearUnderlines(target), on the pair [doc, ur]
clearUnderlines(R) ==
  [doc |-> RemoveAll(R.doc, R.ur.activeUnderlines),
   ur |-> [R.ur EXCEPT !.activeUnderlines = <<>>,
                       !.issueMap = SeqFilter(@, {e \in Range(@) :
                                      \A k \in 1..Len(R.ur.activeUnderlines) :
                                        R.ur.activeUnderlines[k] # e.span})]]

\* UnderlineRenderer.renderSingleUnderline with trackUnderline
renderSingleUnderline(R, issue) ==
  LET textNodes == getTextNodes(R.doc)
      range == createRangeFromIndices(R.doc, textNodes, issue.startIndex, issue.endIndex)
      id == R.ur.created + 1
  IN  IF ~range.ok THEN R
      ELSE [doc |-> WrapRange(R.doc, range, id),
            ur |-> [R.ur EXCEPT !.activeUnderlines = Append(@, id),
                                !.issueMap = Append(@, [span |-> id, issue |-> issue]),
                                !.created = id]]

RECURSIVE SortByStart(_)
\* issues.sort((a, b) => a.startIndex - b.startIndex), a stable sort
SortByStart(issues) ==
  IF issues = <<>> THEN <<>>
  ELSE LET sorted == SortByStart(SubSeq(issues, 1, Len(issues) - 1))
           x == issues[Len(issues)]
           n == Cardinality({k \in 1..Len(sorted) : sorted[k].startIndex <= x.startIndex})
       IN  SubSeq(sorted, 1, n) \o <<x>> \o SubSeq(sorted, n + 1, Len(sorted))

RECURSIVE RenderAll(_, _)
RenderAll(R, issues) ==
  IF issues = <<>> THEN R ELSE RenderAll(renderSingleUnderline(R, Head(issues)), Tail(issues))

\* UnderlineRenderer.renderUnderlines(issues, target)
renderUnderlines(R, issues) == RenderAll(clearUnderlines(R), SortByStart(issues))


(***************************************************************************)
(* The rendering specification: one target element, renderUnderlines with  *)
(* lists of one or two issues and clearUnderlines, in any order.  The      *)
(* targets: one Text node, two adjacent Text nodes, an empty Text node     *)
(* between two others, and text split by an inline formatting element.     *)
(* docBefore keeps the tree as it was when rendering began on a target     *)
(* without underlines, the last call made and the number of renderings.    *)
(***************************************************************************)
MaxRenders == 2
MaxIssueEnd == 4
MaxIssues == 2

Targets ==
  {ElementNode("div", 0, <<TextNode(<<97, 98, 99, 100>>)>>),
   ElementNode("div", 0, <<TextNode(<<97, 98>>), TextNode(<<99, 100>>)>>),
   ElementNode("div", 0, <<TextNode(<<97, 98>>), TextNode(<<>>), TextNode(<<99, 100>>)>>),
   ElementNode("div", 0, <<TextNode(<<97, 98>>),
                            ElementNode("b", 0, <<TextNode(<<99, 100>>)>>),
                            TextNode(<<101, 102>>)>>)}

\* the issues: every span startIndex < endIndex up to MaxIssueEnd
IssueSpans ==
  {x \in {[startIndex |-> a, endIndex |-> b, type |-> "grammar"] :
            a \in 0..MaxIssueEnd, b \in 0..MaxIssueEnd} : x.startIndex < x.endIndex}

\* the lists of one to MaxIssues issues, each with its position as its id
IssueLists ==
  {[k \in 1..Len(l) |-> [id |-> k, startIndex |-> l[k].startIndex,
                         endIndex |-> l[k].endIndex, type |-> l[k].type]] :
     l \in ListsOf(IssueSpans, MaxIssues) \ {<<>>}}

InitRender ==
  /\ MainIdle
  /\ probe = <<>>
  /\ doc \in Targets
  /\ ur = NewRenderer
  /\ docBefore = [tree |-> doc, lastCall |-> "none", renders |-> 0]

\* renderer.renderUnderlines(issues, target)
RenderUnderlines(issues) ==
  /\ docBefore.renders < MaxRenders
  /\ LET R == renderUnderlines([doc |-> doc, ur |-> ur], issues)
     IN  doc' = R.doc /\ ur' = R.ur
  /\ docBefore' = [tree |-> IF ur.activeUnderlines = <<>> THEN doc ELSE docBefore.tree,
                   lastCall |-> "render", renders |-> docBefore.renders + 1]
  /\ UNCHANGED <<mainVars, probe>>

\* renderer.clearUnderlines(target)
ClearUnderlines ==
  /\ LET R == clearUnderlines([doc |-> doc, ur |-> ur])
     IN  doc' = R.doc /\ ur' = R.ur
  /\ docBefore' = [docBefore EXCEPT !.lastCall = "clear"]
  /\ UNCHANGED <<mainVars, probe>>

NextRender ==
  \/ \E issues \in IssueLists : RenderUnderlines(issues)
  \/ ClearUnderlines

SpecRender == InitRender /\ [][NextRender]_vars

\* C16: after renderUnderlines and then clearUnderlines on a target, the target's
\* text content and its Text nodes are what they were before the rendering
C16_ClearRestoresTextNodes ==
  (docBefore.lastCall = "clear" /\ docBefore.renders > 0) =>
    /\ TextContent(doc) = TextContent(docBefore.tree)
    /\ TextNodeData(doc) = TextNodeData(docBefore.tree)

RECURSIVE NestedMarker(_, _)
\* a marker span lies inside a marker span somewhere in the subtree of n
NestedMarker(n, inMarker) ==
  /\ ~IsText(n)
  /\ \/ IsMarker(n) /\ inMarker
     \/ \E k \in 1..Len(n.kids) : NestedMarker(n.kids[k], inMarker \/ IsMarker(n))

\* C17: after any renderings no marker span is a descendant of a marker span
C17_NoNestedMarkers == ~NestedMarker(doc, FALSE)

(***************************************************************************)
(* The key specification: generateKey applied to a text with an options    *)
(* object and with the same properties inserted in another order.  The     *)
(* property names are "a", "b" and "ab", the values strings and numbers.   *)
(***************************************************************************)
OptionProps ==
  {[k |-> <<97>>, v |-> [t |-> "str", s |-> <<120>>]],
   [k |-> <<97>>, v |-> [t |-> "num", n |-> 1]],
   [k |-> <<98>>, v |-> [t |-> "str", s |-> <<120>>]],
   [k |-> <<98>>, v |-> [t |-> "num", n |-> 12]],
   [k |-> <<97, 98>>, v |-> [t |-> "str", s |-> <<121>>]]}
OptionNames == {p.k : p \in OptionProps}

\* the objects: every list of properties with distinct names
OptionObjects ==
  {obj \in ListsOf(OptionProps, Cardinality(OptionNames)) :
     \A i, j \in 1..Len(obj) : i # j => obj[i].k # obj[j].k}

\* two objects hold the same properties
SameProps(o1, o2) == Range(o1) = Range(o2)

InitKey ==
  /\ MainIdle
  /\ doc = <<>> /\ ur = <<>> /\ docBefore = <<>>
  /\ \E text \in {TextA, TextB}, options \in OptionObjects :
       \E reordered \in {o \in OptionObjects : SameProps(o, options)} :
         probe = [text |-> text, options |-> options, reordered |-> reordered,
                  done |-> FALSE, key |-> <<>>, keyReordered |-> <<>>]

\* cache.generateKey(text, options) and cache.generateKey(text, reordered)
GenerateKeys ==
  /\ ~probe.done
  /\ probe' = [probe EXCEPT !.done = TRUE,
                            !.key = generateKey(probe.text, probe.options),
                            !.keyReordered = generateKey(probe.text, probe.reordered)]
  /\ UNCHANGED <<mainVars, doc, ur, docBefore>>

NextKey == GenerateKeys

SpecKey == InitKey /\ [][NextKey]_vars

\* C18: generateKey gives the same key for a text with two options objects that
\* hold the same properties, whatever the order the properties were inserted in
C18_KeyIgnoresInsertionOrder ==
  probe.done => probe.key = probe.keyReordered

\* three properties inserted in two different orders gave one key
C18_Witness ==
  /\ probe.done
  /\ Len(probe.options) = 3
  /\ probe.options # probe.reordered
  /\ probe.options[1].k = <<98>> /\ probe.reordered[1].k = <<97, 98>>
  /\ probe.key = probe.keyReordered
  /\ probe.key # generateKey(probe.text, OptionsNone)


(***************************************************************************)
(* The invalidation specification: a cache of capacity 2 under set, get,   *)
(* has and invalidateByText with the thresholds 0, 0.8 and 1.              *)
(***************************************************************************)
MaxInvalidateOps == 3
InvalidateThresholds ==
  {[num |-> 0, den |-> 1], [num |-> 8, den |-> 10], [num |-> 1, den |-> 1]}

InitInvalidate == InitCacheWith({SmallMaxSize}, MaxInvalidateOps)

\* cache.invalidateByText(text, threshold), recorded with its text
InvalidateText(text, threshold) ==
  RemovalOf("invalidateByText", text, invalidateByText(World, text, threshold, now))

NextInvalidate ==
  \/ \E key \in CacheKeys : Set(key, 0)
  \/ \E key \in CacheKeys : Get(key)
  \/ \E key \in CacheKeys : Has(key)
  \/ \E text \in {TextA, TextB}, threshold \in InvalidateThresholds :
       InvalidateText(text, threshold)

SpecInvalidate == InitInvalidate /\ [][NextInvalidate]_vars

\* C19: after invalidateByText(text, threshold), for any threshold in 0..1, no
\* entry whose key was generated from that text is in the cache or returned by
\* get or has
C19_ExactTextInvalidated ==
  lastOp.op = "invalidateByText" =>
    \A key \in CacheKeys :
      extractTextHashFromKey(key) = hashText(lastOp.key) =>
        /\ ~MapHas(ac.cache, key)
        /\ ~get(World, key, now).ret.found
        /\ ~has(World, key, now).ret


(***************************************************************************)
(* The failing-store specification: a cache with persistence enabled whose *)
(* store refuses every write, with QuotaExceededError or with another      *)
(* error, under set, has, delete, invalidateByText and the clock.          *)
(* Every store access of the cache is inside a try whose catch swallows    *)
(* the error, so each operation runs to its end; what the catch does to    *)
(* the cache (the expiry sweep on a quota error) is part of the operation. *)
(***************************************************************************)
MaxStoreOps == 3

InitStore ==
  /\ now = 0
  /\ \E mode \in {"quota", "error"} :
       localStorage = [present |-> FALSE, item |-> <<>>, mode |-> mode]
  /\ ac = NewCache(SmallMaxSize, SmallMaxAge, TRUE, localStorage, 0)
  /\ ops = 0
  /\ budget = MaxStoreOps
  /\ lastOp = NoOp
  /\ life = [k \in CacheKeys |-> NoLife]
  /\ accessSeq = [k \in CacheKeys |-> 0]
  /\ eng = NewEngine(TRUE, TRUE)
  /\ activeAnalyses = <<>>
  /\ timers = <<>>
  /\ runs = <<>>
  /\ promises = <<>>
  /\ ta = NewTextAnalyzer
  /\ sent = <<>>
  /\ settled = <<>>
  /\ callLog = <<>>
  /\ SideIdle

\* cache.delete(key), recorded with its key
DeleteKey(key) == RemovalOf("delete", key, delete(World, key, now).w)

NextStore ==
  \/ Tick
  \/ \E key \in CacheKeys, ttl \in Ttls : Set(key, ttl)
  \/ \E key \in CacheKeys : Has(key)
  \/ \E key \in CacheKeys : DeleteKey(key)
  \/ \E text \in {TextA, TextB}, threshold \in Thresholds : InvalidateText(text, threshold)

SpecStore == InitStore /\ [][NextStore]_vars

\* C20: with a store that refuses every write, at the moment set, delete or
\* invalidateByText has returned the cache reflects it: the key set is found
\* with the data set, the key deleted and the keys of the invalidated text are
\* not found; nothing has been written to the store
C20_FailingStoreKeepsCacheRight ==
  /\ ~localStorage.present
  /\ (lastOp.op = "set" /\ lastOp.t = now) =>
        /\ has(World, lastOp.key, now).ret
        /\ get(World, lastOp.key, now).ret = Found(life[lastOp.key].data)
        /\ life[lastOp.key].data = ops
  /\ lastOp.op = "delete" =>
        /\ ~has(World, lastOp.key, now).ret
        /\ ~get(World, lastOp.key, now).ret.found
  /\ lastOp.op = "invalidateByText" =>
        \A key \in CacheKeys :
          extractTextHashFromKey(key) = hashText(lastOp.key) =>
            ~has(World, key, now).ret /\ ~get(World, key, now).ret.found

\* on a store that fails with QuotaExceededError: a third entry has been set
\* after an earlier one was deleted, and the cache holds two entries
C20_Witness ==
  /\ localStorage.mode = "quota"
  /\ lastOp.op = "set" /\ lastOp.t = now /\ ops = 3
  /\ has(World, lastOp.key, now).ret
  /\ \E key \in CacheKeys : key # lastOp.key /\ life[key].data # 0 /\ ~life[key].live
  /\ Len(ac.cache) = 2


(***************************************************************************)
(* Claims about a cache constructed on a slot an earlier instance wrote.   *)
(***************************************************************************)
\* the entries of the persisted slot, none when the slot is empty
SlotEntries == IF localStorage.present THEN Range(localStorage.item.cache) ELSE {}

\* C21: right after a cache is constructed with persistence enabled, every entry
\* of the slot that is not expired (isExpired, as get decides it) is returned by
\* get with its data, and no other key is found
C21_ReloadRestoresUnexpired ==
  (lastOp.op = "new" /\ lastOp.t = now) =>
    /\ \A e \in SlotEntries :
         ~isExpired(e, now) => get(World, e.key, now).ret = Found(e.data)
    /\ \A key \in CacheKeys :
         get(World, key, now).ret.found =>
           \E e \in SlotEntries : e.key = key /\ ~isExpired(e, now)


(***************************************************************************)
(* OverlayPositioner.  Lengths are in quarter pixels, so that the halving  *)
(* in calculateInitialPosition is exact for rectangles whose sides are     *)
(* whole or half pixels (getBoundingClientRect returns fractions).  A      *)
(* rectangle is [x, y, width, height]; top = y, left = x, right = x +      *)
(* width, bottom = y + height, as getElementRect computes them.  The       *)
(* positioner is [activeElements, attrs]: the Map from floating element    *)
(* to its tracked data, and the elements of the document that carry the    *)
(* data-positioning attribute.  Elements are numbered in document order.   *)
(***************************************************************************)
Px(n) == 4 * n
\* Math.round: to the nearest whole pixel, halves upwards
MathRound(v) == 4 * ((v + 2) \div 4)

Rect(x, y, width, height) == [x |-> x, y |-> y, width |-> width, height |-> height]
RectRight(r) == r.x + r.width
RectBottom(r) == r.y + r.height

NewPositioner == [activeElements |-> <<>>, attrs |-> {}]

\* the switch of calculateInitialPosition
calculateInitialPosition(referenceRect, floatingRect, placement, offset) ==
  LET above == referenceRect.y - floatingRect.height - offset
      below == referenceRect.y + referenceRect.height + offset
      leftOf == referenceRect.x - floatingRect.width - offset
      rightOf == referenceRect.x + referenceRect.width + offset
      centreX == referenceRect.x + (referenceRect.width - floatingRect.width) \div 2
      centreY == referenceRect.y + (referenceRect.height - floatingRect.height) \div 2
      endX == referenceRect.x + referenceRect.width - floatingRect.width
      endY == referenceRect.y + referenceRect.height - floatingRect.height
      at(x, y) == [x |-> x, y |-> y, placement |-> placement]
  IN  CASE placement = "top" -> at(centreX, above)
        [] placement = "top-start" -> at(referenceRect.x, above)
        [] placement = "top-end" -> at(endX, above)
        [] placement = "bottom" -> at(centreX, below)
        [] placement = "bottom-start" -> at(referenceRect.x, below)
        [] placement = "bottom-end" -> at(endX, below)
        [] placement = "left" -> at(leftOf, centreY)
        [] placement = "left-start" -> at(leftOf, referenceRect.y)
        [] placement = "left-end" -> at(leftOf, endY)
        [] placement = "right" -> at(rightOf, centreY)
        [] placement = "right-start" -> at(rightOf, referenceRect.y)
        [] placement = "right-end" -> at(rightOf, endY)
        [] OTHER -> [x |-> referenceRect.x, y |-> above, placement |-> "top"]

\* detectOverflows: the set of the sides whose flag is true
detectOverflows(x, y, floatingRect, boundary) ==
  {side \in {"top", "right", "bottom", "left"} :
     \/ side = "top" /\ y < boundary.y
     \/ side = "right" /\ x + floatingRect.width > RectRight(boundary)
     \/ side = "bottom" /\ y + floatingRect.height > RectBottom(boundary)
     \/ side = "left" /\ x < boundary.x}

getFlippedPlacement(placement) ==
  CASE placement = "top" -> "bottom"
    [] placement = "top-start" -> "bottom-start"
    [] placement = "top-end" -> "bottom-end"
    [] placement = "bottom" -> "top"
    [] placement = "bottom-start" -> "top-start"
    [] placement = "bottom-end" -> "top-end"
    [] placement = "left" -> "right"
    [] placement = "left-start" -> "right-start"
    [] placement = "left-end" -> "right-end"
    [] placement = "right" -> "left"
    [] placement = "right-start" -> "left-start"
    [] placement = "right-end" -> "left-end"
    [] OTHER -> placement

\* this.activeElements.get(document.querySelector('[data-positioning]'))
\*   ?.positionData?.referenceRect : the reference rectangle tracked for the
\* first element of the document that carries the attribute, NotFound when no
\* element carries it or the positioner does not track that element
TrackedReferenceRect(P) ==
  IF P.attrs = {} THEN NotFound
  ELSE LET first == CHOOSE el \in P.attrs : \A other \in P.attrs : el <= other
       IN  IF MapHas(P.activeElements, first)
           THEN Found(MapGet(P.activeElements, first).referenceRect)
           ELSE NotFound

applyFlip(P, position, floatingRect, boundary, config) ==
  LET overflows == detectOverflows(position.x, position.y, floatingRect, boundary)
      flippedPlacement == getFlippedPlacement(config.placement)
      referenceRect == TrackedReferenceRect(P)
      flippedPosition ==
        calculateInitialPosition(referenceRect.data, floatingRect, flippedPlacement, config.offset)
      flippedOverflows ==
        detectOverflows(flippedPosition.x, flippedPosition.y, floatingRect, boundary)
  IN  IF overflows = {} THEN position
      ELSE IF flippedPlacement # config.placement /\ referenceRect.found
              /\ Cardinality(flippedOverflows) < Cardinality(overflows)
           THEN flippedPosition
           ELSE position

applyShift(position, floatingRect, boundary, config) ==
  LET leftOverflow == boundary.x + config.padding - position.x
      rightOverflow == (position.x + floatingRect.width) - (RectRight(boundary) - config.padding)
      topOverflow == boundary.y + config.padding - position.y
      bottomOverflow == (position.y + floatingRect.height) - (RectBottom(boundary) - config.padding)
  IN  [position EXCEPT
         !.x = IF leftOverflow > 0 THEN @ + leftOverflow
               ELSE IF rightOverflow > 0 THEN @ - rightOverflow ELSE @,
         !.y = IF topOverflow > 0 THEN @ + topOverflow
               ELSE IF bottomOverflow > 0 THEN @ - bottomOverflow ELSE @]

\* computePosition with boundary = viewport (config.boundary is null) and no arrow
computePosition(P, floatingRect, referenceRect, viewport, config) ==
  LET initial == calculateInitialPosition(referenceRect, floatingRect, config.placement, config.offset)
      flipped == IF config.flip THEN applyFlip(P, initial, floatingRect, viewport, config) ELSE initial
      shifted == IF config.shift THEN applyShift(flipped, floatingRect, viewport, config) ELSE flipped
  IN  [x |-> MathRound(shifted.x), y |-> MathRound(shifted.y), placement |-> shifted.placement,
       referenceRect |-> referenceRect, floatingRect |-> floatingRect, boundary |-> viewport]

\* position: computePosition, applyPosition (sets data-positioning), then track
position(P, floatingElement, floatingRect, referenceRect, viewport, config) ==
  LET positionData == computePosition(P, floatingRect, referenceRect, viewport, config)
  IN  [P |-> [activeElements |-> MapSet(P.activeElements,
                                        [key |-> floatingElement, referenceRect |-> referenceRect]),
              attrs |-> P.attrs \cup {floatingElement}],
       ret |-> positionData]

untrack(P, floatingElement) ==
  [activeElements |-> MapDelete(P.activeElements, floatingElement),
   attrs |-> P.attrs \ {floatingElement}]


(***************************************************************************)
(* Positioning specification: one positioner, two floating elements, a     *)
(* fixed viewport; each position() call draws the rectangles and the       *)
(* placement.  probe = [P, calls, last], last the latest position() call.  *)
(***************************************************************************)
MaxPositions == 2
FloatingElements == {1, 2}
Viewport == Rect(0, 0, Px(12), Px(12))
ReferenceRects == {Rect(x, y, Px(2), Px(1)) : x \in {Px(5), Px(10)}, y \in {Px(1), Px(6)}}
\* a whole-pixel and a half-pixel width
FloatingRects == {Rect(0, 0, w, Px(2)) : w \in {Px(3), Px(3) + 2}}
Placements == {"top", "bottom", "left"}
PositionConfig(placement) ==
  [placement |-> placement, offset |-> Px(1), padding |-> Px(1), flip |-> TRUE, shift |-> TRUE]

NoPosition == [called |-> FALSE]

InitPosition ==
  /\ MainIdle
  /\ doc = <<>> /\ ur = <<>> /\ docBefore = <<>>
  /\ probe = [P |-> NewPositioner, calls |-> 0, last |-> NoPosition]

Position(floatingElement, floatingRect, referenceRect, placement) ==
  /\ probe.calls < MaxPositions
  /\ LET config == PositionConfig(placement)
         r == position(probe.P, floatingElement, floatingRect, referenceRect, Viewport, config)
     IN  probe' = [P |-> r.P, calls |-> probe.calls + 1,
                   last |-> [called |-> TRUE, floatingElement |-> floatingElement,
                             first |-> floatingElement \notin probe.P.attrs,
                             config |-> config, ret |-> r.ret]]
  /\ UNCHANGED <<mainVars, doc, ur, docBefore>>

Untrack(floatingElement) ==
  /\ MapHas(probe.P.activeElements, floatingElement)
  /\ probe' = [probe EXCEPT !.P = untrack(@, floatingElement)]
  /\ UNCHANGED <<mainVars, doc, ur, docBefore>>

NextPosition ==
  \/ \E el \in FloatingElements, fl \in FloatingRects, ref \in ReferenceRects, pl \in Placements :
       Position(el, fl, ref, pl)
  \/ \E el \in FloatingElements : Untrack(el)

SpecPosition == InitPosition /\ [][NextPosition]_vars

\* the overflows of the floating box of the latest call placed at the given placement
OverflowsAt(placement) ==
  LET d == probe.last.ret
      at == calculateInitialPosition(d.referenceRect, d.floatingRect, placement,
                                     probe.last.config.offset)
  IN  detectOverflows(at.x, at.y, d.floatingRect, d.boundary)

\* C22: a position() call with placement 'top' and flip enabled, whose box above
\* the reference overflows the top edge while the box below overflows no edge,
\* returns placement 'bottom' with y = reference.y + reference.height + offset
C22_FlipsToBottom ==
  (/\ probe.last.called
   /\ probe.last.config.placement = "top" /\ probe.last.config.flip
   /\ "top" \in OverflowsAt("top")
   /\ OverflowsAt("bottom") = {})
  => LET d == probe.last.ret
     IN  /\ d.placement = "bottom"
         /\ d.y = MathRound(d.referenceRect.y + d.referenceRect.height + probe.last.config.offset)

\* the boundary of the latest call shrunk by the padding on every side
PaddedBoundary ==
  LET b == probe.last.ret.boundary
      pad == probe.last.config.padding
  IN  Rect(b.x + pad, b.y + pad, b.width - 2 * pad, b.height - 2 * pad)

\* C29: with shift enabled, when the floating box fits in the padded boundary the
\* returned position lies inside the padded boundary on both axes
C29_ShiftKeepsInsidePadding ==
  (/\ probe.last.called
   /\ probe.last.config.shift
   /\ probe.last.ret.floatingRect.width <= PaddedBoundary.width
   /\ probe.last.ret.floatingRect.height <= PaddedBoundary.height)
  => LET d == probe.last.ret
     IN  /\ d.x >= PaddedBoundary.x
         /\ d.x + d.floatingRect.width <= RectRight(PaddedBoundary)
         /\ d.y >= PaddedBoundary.y
         /\ d.y + d.floatingRect.height <= RectBottom(PaddedBoundary)


(***************************************************************************)
(* TextAnalyzer.createRateLimiter and the worker of processQueue that      *)
(* awaits it.  The limiter is called with the closure's requests array;    *)
(* maxRequests and timeWindow are the closure's constants (10 and 60000    *)
(* ms in the source, small values here, time in clock steps).              *)
(***************************************************************************)
RECURSIVE DropOld(_, _)
\* while (requests.length > 0 && requests[0] < limit) requests.shift()
DropOld(requests, limit) ==
  IF requests # <<>> /\ Head(requests) < limit THEN DropOld(Tail(requests), limit) ELSE requests

\* the promise executor of the limiter, run at time t: the requests array it
\* leaves, whether it resolved at once, and the delay of the timer it set if not
rateLimiter(requests, t, maxRequests, timeWindow) ==
  LET kept == DropOld(requests, t - timeWindow)
  IN  IF Len(kept) < maxRequests
      THEN [requests |-> Append(kept, t), resolved |-> TRUE, waitTime |-> 0]
      ELSE [requests |-> kept, resolved |-> FALSE, waitTime |-> (Head(kept) + timeWindow) - t]

\* the timer callback of the limiter, run at time t
rateLimiterTimeout(requests, t) == Append(requests, t)

SmallMaxRequests == 2
SmallTimeWindow == 2
MaxRateTime == 4
MaxChunkRequests == 5

\* probe = [requests, queue, stage, due, admitted, arrived]: the limiter's array,
\* the number of queued chunk requests, where the worker stands ("idle", "wait"
\* on the limiter's timer, or "provider" during performChunkAnalysis), the time
\* the timer is due, and the history of admission times and of arrivals
InitRate ==
  /\ MainIdle
  /\ doc = <<>> /\ ur = <<>> /\ docBefore = <<>>
  /\ probe = [requests |-> <<>>, queue |-> 0, stage |-> "idle", due |-> 0,
              admitted |-> <<>>, arrived |-> 0]

\* the worker takes the next request and awaits the limiter
TakeRequest(p) ==
  LET r == rateLimiter(p.requests, now, SmallMaxRequests, SmallTimeWindow)
  IN  [p EXCEPT !.queue = @ - 1,
                !.requests = r.requests,
                !.stage = IF r.resolved THEN "provider" ELSE "wait",
                !.due = IF r.resolved THEN 0 ELSE now + r.waitTime,
                !.admitted = IF r.resolved THEN Append(@, now) ELSE @]

\* analyzeTextChunk: push the request, then processQueue, which returns at once
\* while a worker is processing
AnalyzeTextChunk ==
  /\ probe.arrived < MaxChunkRequests
  /\ LET p == [probe EXCEPT !.queue = @ + 1, !.arrived = @ + 1]
     IN  probe' = IF p.stage = "idle" THEN TakeRequest(p) ELSE p
  /\ UNCHANGED <<mainVars, doc, ur, docBefore>>

\* the limiter's timer fires, at its due time or later
RateTimerFire ==
  /\ probe.stage = "wait" /\ now >= probe.due
  /\ probe' = [probe EXCEPT !.requests = rateLimiterTimeout(@, now),
                            !.stage = "provider",
                            !.admitted = Append(@, now)]
  /\ UNCHANGED <<mainVars, doc, ur, docBefore>>

\* a mutant of ChunkSettled: the worker stops after one request, whatever is queued
ChunkSettled_stops ==
  /\ probe.stage = "provider"
  /\ probe' = [probe EXCEPT !.stage = "idle"]
  /\ UNCHANGED <<mainVars, doc, ur, docBefore>>

\* performChunkAnalysis settles (either way); the while loop goes on
ChunkSettled ==
  /\ probe.stage = "provider"
  /\ probe' = IF probe.queue > 0 THEN TakeRequest(probe) ELSE [probe EXCEPT !.stage = "idle"]
  /\ UNCHANGED <<mainVars, doc, ur, docBefore>>

RateTick ==
  /\ now < MaxRateTime
  /\ now' = now + 1
  /\ UNCHANGED <<sideVars, ac, localStorage, ops, budget, lastOp, life, accessSeq, engineVars>>

NextRate == AnalyzeTextChunk \/ RateTimerFire \/ ChunkSettled \/ RateTick

SpecRate == InitRate /\ [][NextRate]_vars

\* the number of admissions in the window (t - timeWindow, t]
AdmittedIn(t) ==
  Cardinality({i \in 1..Len(probe.admitted) :
                 probe.admitted[i] > t - SmallTimeWindow /\ probe.admitted[i] <= t})

\* C23: in every rolling window of timeWindow at most maxRequests chunk analyses
\* are admitted
C23_AtMostMaxPerWindow ==
  \A t \in 0..MaxRateTime : AdmittedIn(t) <= SmallMaxRequests


(***************************************************************************)
(* Claims about a provider failure and the requests queued behind it.      *)
(***************************************************************************)
\* the calls whose request was pushed on the analyzer's queue
Pushed == {i \in 1..Len(runs) : runs[i].seq > 0}

MaxNormalizeLen == 3
NormalizeTexts == {[i \in 1..n |-> 96 + i] : n \in 0..MaxNormalizeLen}
NormalizeIndices == -1..(MaxNormalizeLen + 1)

InitNormalize ==
  /\ MainIdle
  /\ doc = <<>> /\ ur = <<>> /\ docBefore = <<>>
  /\ \E text \in NormalizeTexts, a \in NormalizeIndices, b \in NormalizeIndices :
       probe = [text |-> text,
                rawIssue |-> [startIndex |-> a, endIndex |-> b, type |-> "grammar"],
                done |-> FALSE, issue |-> <<>>]

NormalizeIssue ==
  /\ ~probe.done
  /\ probe' = [probe EXCEPT !.done = TRUE,
                            !.issue = validateAndNormalizeIssue(probe.rawIssue, probe.text, 1)]
  /\ UNCHANGED <<mainVars, doc, ur, docBefore>>

NextNormalize == NormalizeIssue

SpecNormalize == InitNormalize /\ [][NextNormalize]_vars

\* C25: the normalised issue has 0 <= startIndex <= length - 1,
\* startIndex + 1 <= endIndex <= length, and its originalText is
\* originalText.substring(startIndex, endIndex)
C25_NormalizedWithinText ==
  probe.done =>
    /\ 0 <= probe.issue.startIndex
    /\ probe.issue.startIndex <= Len(probe.text) - 1
    /\ probe.issue.startIndex + 1 <= probe.issue.endIndex
    /\ probe.issue.endIndex <= Len(probe.text)
    /\ probe.issue.originalText =
         Substring(probe.text, probe.issue.startIndex, probe.issue.endIndex)


(***************************************************************************)
(* IssueDetector.parseIssues.  A response is [kind, issues, lines]: kind    *)
(* "json" when the text from its first { to its last } parses as JSON       *)
(* (issues is then jsonData.issues || []), "invalidJson" when it has such   *)
(* a stretch that does not parse, "noObject" when it has none; in the last  *)
(* two cases the whole response does not parse either.  lines are the       *)
(* non-blank lines of the response, each [length, quoted, words]: its       *)
(* length, the text between its first pair of quotes if any, its words.     *)
(* No line of the model carries a keyword of classifyIssueType, so the      *)
(* type of a heuristic issue is the default, style.                         *)
(***************************************************************************)
\* String.prototype.indexOf
indexOf(text, sub) ==
  LET hits == {i \in 0..(Len(text) - Len(sub)) : SubSeq(text, i + 1, i + Len(sub)) = sub}
  IN  IF hits = {} THEN -1 ELSE CHOOSE i \in hits : \A j \in hits : i <= j

MinIssueLineLength == 10
MinWordLength == 3

\* IssueDetector.parseJsonResponse: the raw issues, or threw
parseJsonResponse(response) ==
  IF response.kind = "json" THEN [threw |-> FALSE, issues |-> response.issues]
  ELSE [threw |-> TRUE, issues |-> <<>>]

\* IssueDetector.extractIssueFromLine
extractIssueFromLine(line, originalText) ==
  LET words == SeqFilter(line.words, {w \in Range(line.words) :
                                        Len(w) > MinWordLength /\ indexOf(originalText, w) # -1})
      problematicText == IF line.quoted.found THEN line.quoted
                         ELSE IF words # <<>> THEN Found(Head(words)) ELSE NotFound
      startIndex == indexOf(originalText, problematicText.data)
  IN  IF line.length < MinIssueLineLength THEN NotFound
      ELSE IF ~problematicText.found THEN NotFound
      ELSE IF startIndex = -1 THEN NotFound
      ELSE Found([type |-> "style", startIndex |-> startIndex,
                  endIndex |-> startIndex + Len(problematicText.data)])

RECURSIVE parseTextResponse(_, _)
\* IssueDetector.parseTextResponse over the non-blank lines
parseTextResponse(lines, originalText) ==
  IF lines = <<>> THEN <<>>
  ELSE LET issue == extractIssueFromLine(Head(lines), originalText)
       IN  (IF issue.found THEN <<issue.data>> ELSE <<>>)
             \o parseTextResponse(Tail(lines), originalText)

\* IssueDetector.parseIssues
parseIssues(response, originalText) ==
  LET jsonIssues == parseJsonResponse(response)
  IN  IF jsonIssues.threw THEN <<>>
      ELSE IF Len(jsonIssues.issues) > 0 THEN processIssues(jsonIssues.issues, originalText)
      ELSE processIssues(parseTextResponse(response.lines, originalText), originalText)

\* the text "abcde"; lines: one quoting "bc", one quoting a text not in the
\* original, a short one quoting "bc", one naming the word "abcd" unquoted
IssueText == <<97, 98, 99, 100, 101>>
ResponseLines ==
  {[length |-> 12, quoted |-> Found(<<98, 99>>), words |-> <<>>],
   [length |-> 12, quoted |-> Found(<<122, 122>>), words |-> <<>>],
   [length |-> 6, quoted |-> Found(<<98, 99>>), words |-> <<>>],
   [length |-> 12, quoted |-> NotFound, words |-> <<<<97, 98, 99, 100>>>>]}
MaxResponseLines == 2
Responses ==
  {[kind |-> k, issues |-> js, lines |-> ls] :
     k \in {"noObject", "invalidJson", "json"},
     js \in {<<>>, <<[startIndex |-> 1, endIndex |-> 2, type |-> "grammar"]>>},
     ls \in ListsOf(ResponseLines, MaxResponseLines)}

InitIssues ==
  /\ MainIdle
  /\ doc = <<>> /\ ur = <<>> /\ docBefore = <<>>
  /\ \E response \in {r \in Responses : r.kind # "json" => r.issues = <<>>} :
       probe = [text |-> IssueText, response |-> response, done |-> FALSE, issues |-> <<>>]

ParseIssues ==
  /\ ~probe.done
  /\ probe' = [probe EXCEPT !.done = TRUE,
                            !.issues = parseIssues(probe.response, probe.text)]
  /\ UNCHANGED <<mainVars, doc, ur, docBefore>>

NextIssues == ParseIssues

SpecIssues == InitIssues /\ [][NextIssues]_vars

\* the lines of the response of at least ten characters that quote a substring
\* of the original text
QuotingLines ==
  {i \in 1..Len(probe.response.lines) :
     LET line == probe.response.lines[i]
     IN  /\ line.length >= MinIssueLineLength
         /\ line.quoted.found
         /\ indexOf(probe.text, line.quoted.data) # -1}

\* C26: when the structured parse of the response fails, every line of at least
\* ten characters that quotes a substring of the original text yields an issue
\* at that substring
C26_FallsBackToLineParsing ==
  (probe.done /\ probe.response.kind \in {"noObject", "invalidJson"}) =>
    \A i \in QuotingLines :
      LET quoted == probe.response.lines[i].quoted.data
      IN  \E n \in 1..Len(probe.issues) :
            /\ probe.issues[n].startIndex = indexOf(probe.text, quoted)
            /\ probe.issues[n].endIndex = indexOf(probe.text, quoted) + Len(quoted)


(***************************************************************************)
(* Claims about the characters a marker wraps.                             *)
(***************************************************************************)
\* the issues the latest pass rendered, with the span that marks each
RenderedIssues ==
  {e \in Range(ur.issueMap) : \E k \in 1..Len(ur.activeUnderlines) : ur.activeUnderlines[k] = e.span}

\* the text content of the marker span with the given identity
MarkerText(id) == TextContent(NodeAt(doc, PathsOfId(doc, <<>>, 1, id)[1]))

\* C27: after a renderUnderlines pass whose rendered issues are pairwise
\* disjoint, each marker wraps the characters [startIndex, endIndex) of the
\* target's text (wrapping moves no character, so the text content after the
\* pass is the text before it)
C27_MarkerWrapsIssueSpan ==
  (/\ docBefore.lastCall = "render"
   /\ \A e, f \in RenderedIssues :
        e # f => (e.issue.endIndex <= f.issue.startIndex \/ f.issue.endIndex <= e.issue.startIndex))
  => \A e \in RenderedIssues :
       MarkerText(e.span) = Substring(TextContent(doc), e.issue.startIndex, e.issue.endIndex)


(***************************************************************************)
(* Claims about the engine's statistics.                                   *)
(***************************************************************************)
\* the analyze calls that have resolved
ResolvedCalls == {i \in 1..Len(promises) : promises[i].state = "resolved"}

RECURSIVE IssuesResolved(_)
\* the number of issues in the results of the first n calls that resolved
IssuesResolved(n) ==
  IF n = 0 THEN 0
  ELSE IssuesResolved(n - 1) + (IF n \in ResolvedCalls THEN Len(promises[n].issues) ELSE 0)

\* C28: every analyze call that resolves, from the cache or from the pipeline,
\* adds one to totalAnalyses and the number of its issues to totalIssuesFound
C28_StatsCountResolvedCalls ==
  /\ eng.stats.totalAnalyses = Cardinality(ResolvedCalls)
  /\ eng.stats.totalIssuesFound = IssuesResolved(Len(promises))


(***************************************************************************)
(* TextAnalyzer.chunkText, with the analyzer's maxChunkSize as a parameter *)
(* (1000 in the source).  Texts are sequences of code units; indices are   *)
(* the 0-based indices of the source.                                      *)
(***************************************************************************)
FullStop == 46
QuestionMark == 63
ExclamationMark == 33

\* String.prototype.lastIndexOf(ch, fromIndex): the largest index <= fromIndex
\* that holds ch, -1 if none
lastIndexOf(text, ch, fromIndex) ==
  LET hits == {i \in 0..(Len(text) - 1) : i <= fromIndex /\ text[i + 1] = ch}
  IN  IF hits = {} THEN -1 ELSE CHOOSE i \in hits : \A j \in hits : j <= i

\* a mutant of chunkEnd: the chunk ends after the last sentence mark wherever it
\* lies, the guard bestEnd > currentIndex + maxChunkSize * 0.7 is dropped
chunkEnd_anyMark(text, currentIndex, maxChunkSize) ==
  LET endIndex == currentIndex + maxChunkSize
      max(a, b) == IF a > b THEN a ELSE b
      bestEnd == max(lastIndexOf(text, FullStop, endIndex),
                     max(lastIndexOf(text, QuestionMark, endIndex),
                         lastIndexOf(text, ExclamationMark, endIndex)))
  IN  IF endIndex < Len(text) /\ bestEnd # -1
      THEN bestEnd + 1 ELSE endIndex

\* chunkEnd with the sentence break accepted from half of the intended chunk on
chunkEnd_fromHalf(text, currentIndex, maxChunkSize) ==
  LET endIndex == currentIndex + maxChunkSize
      sentenceEnd == lastIndexOf(text, FullStop, endIndex)
      questionEnd == lastIndexOf(text, QuestionMark, endIndex)
      exclamationEnd == lastIndexOf(text, ExclamationMark, endIndex)
      m1 == IF sentenceEnd >= questionEnd THEN sentenceEnd ELSE questionEnd
      bestEnd == IF m1 >= exclamationEnd THEN m1 ELSE exclamationEnd
  IN  IF endIndex < Len(text) /\ 10 * bestEnd > 10 * currentIndex + 5 * maxChunkSize
      THEN bestEnd + 1 ELSE endIndex

\* one pass of the while loop of chunkText: the end of the chunk that starts at
\* currentIndex; bestEnd > currentIndex + maxChunkSize * 0.7 is compared in tenths
chunkEnd(text, currentIndex, maxChunkSize) ==
  LET endIndex == currentIndex + maxChunkSize
      max(a, b) == IF a > b THEN a ELSE b
      bestEnd == max(lastIndexOf(text, FullStop, endIndex),
                     max(lastIndexOf(text, QuestionMark, endIndex),
                         lastIndexOf(text, ExclamationMark, endIndex)))
  IN  IF endIndex < Len(text) /\ 10 * bestEnd > 10 * currentIndex + 7 * maxChunkSize
      THEN bestEnd + 1 ELSE endIndex

RECURSIVE chunkLoop(_, _, _, _)
\* the while loop of chunkText; steps counts the passes left before the model
\* gives up, in which case the chunks end with the marker <<-1>>
chunkLoop(text, currentIndex, maxChunkSize, steps) ==
  IF ~(currentIndex < Len(text)) THEN <<>>
  ELSE IF steps = 0 THEN <<<<-1>>>>
  ELSE LET endIndex == chunkEnd(text, currentIndex, maxChunkSize)
       IN  <<Substring(text, currentIndex, endIndex)>>
             \o chunkLoop(text, endIndex, maxChunkSize, steps - 1)

\* TextAnalyzer.chunkText; a loop that has not ended after length + 1 passes
\* makes no progress
chunkText(text, maxChunkSize) ==
  IF Len(text) <= maxChunkSize THEN <<text>>
  ELSE chunkLoop(text, 0, maxChunkSize, Len(text) + 1)

(***************************************************************************)
(* The chunking specification: chunkText applied to every text up to       *)
(* MaxChunkTextLen over a letter, the full stop and the question mark.     *)
(***************************************************************************)
SmallMaxChunkSize == 7
MaxChunkTextLen == 9
ChunkAlphabet == {97, FullStop, QuestionMark}
ChunkTexts == UNION {[1..n -> ChunkAlphabet] : n \in 0..MaxChunkTextLen}

InitChunk ==
  /\ MainIdle
  /\ doc = <<>> /\ ur = <<>> /\ docBefore = <<>>
  /\ \E text \in ChunkTexts : probe = [text |-> text, done |-> FALSE, chunks |-> <<>>]

ChunkText ==
  /\ ~probe.done
  /\ probe' = [probe EXCEPT !.done = TRUE, !.chunks = chunkText(probe.text, SmallMaxChunkSize)]
  /\ UNCHANGED <<mainVars, doc, ur, docBefore>>

NextChunk == ChunkText

SpecChunk == InitChunk /\ [][NextChunk]_vars

\* the loop ended by itself and the chunks put together are the text
ChunksCoverText ==
  /\ \A k \in 1..Len(probe.chunks) : probe.chunks[k] # <<-1>>
  /\ Concat(probe.chunks) = probe.text

\* C30 as stated: chunkText terminates, every chunk is non-empty, the chunks
\* concatenated are the text, and a text of at most maxChunkSize is one chunk
C30_ChunksNonEmptyCoverText ==
  probe.done =>
    /\ ChunksCoverText
    /\ \A k \in 1..Len(probe.chunks) : probe.chunks[k] # <<>>
    /\ Len(probe.text) <= SmallMaxChunkSize => Len(probe.chunks) = 1

\* C30 amended: the same, with the chunks non-empty for a non-empty text
C30_ChunksCoverText ==
  probe.done =>
    /\ ChunksCoverText
    /\ probe.text # <<>> => \A k \in 1..Len(probe.chunks) : probe.chunks[k] # <<>>
    /\ Len(probe.text) <= SmallMaxChunkSize => Len(probe.chunks) = 1

\* a text cut after a sentence mark into a chunk shorter than maxChunkSize
C30_Witness ==
  /\ probe.done
  /\ Len(probe.chunks) >= 2
  /\ Len(probe.chunks[1]) < SmallMaxChunkSize
  /\ Last(probe.chunks[1]) = FullStop


\* C31: every chunk chunkText returns has at most maxChunkSize characters
C31_ChunkWithinMaxSize ==
  probe.done => \A k \in 1..Len(probe.chunks) : Len(probe.chunks[k]) <= SmallMaxChunkSize


(***************************************************************************)
(* The sentence specification: chunkText with a maxChunkSize of which 70%  *)
(* is a whole number of characters, as it is of the source's 1000, applied *)
(* to every text up to MaxSentenceTextLen over a letter and the full stop. *)
(***************************************************************************)
RoundMaxChunkSize == 10
MaxSentenceTextLen == 12
SentenceTexts == UNION {[1..n -> {97, FullStop}] : n \in 0..MaxSentenceTextLen}

InitSentence ==
  /\ MainIdle
  /\ doc = <<>> /\ ur = <<>> /\ docBefore = <<>>
  /\ \E text \in SentenceTexts : probe = [text |-> text, done |-> FALSE, chunks |-> <<>>]

ChunkSentences ==
  /\ ~probe.done
  /\ probe' = [probe EXCEPT !.done = TRUE, !.chunks = chunkText(probe.text, RoundMaxChunkSize)]
  /\ UNCHANGED <<mainVars, doc, ur, docBefore>>

NextSentence == ChunkSentences

SpecSentence == InitSentence /\ [][NextSentence]_vars

RECURSIVE ChunkStart(_)
\* the index of the text at which chunk k begins
ChunkStart(k) == IF k = 1 THEN 0 ELSE ChunkStart(k - 1) + Len(probe.chunks[k - 1])

\* the index of the last sentence mark at or before the slice boundary of the
\* chunk that starts at the given index, -1 if none
LastMarkBefore(start) ==
  LET marks == {i \in 0..(Len(probe.text) - 1) :
                  /\ i <= start + RoundMaxChunkSize
                  /\ probe.text[i + 1] \in {FullStop, QuestionMark, ExclamationMark}}
  IN  IF marks = {} THEN -1 ELSE CHOOSE i \in marks : \A j \in marks : j <= i

ShortSentences ==
  \A i \in 1..Len(probe.text) :
    \E j \in i..Len(probe.text) :
      /\ probe.text[j] \in {FullStop, QuestionMark, ExclamationMark}
      /\ 10 * (j - i + 1) < 3 * RoundMaxChunkSize

FreshTexts == {JsStr(TextA), JsStr(TextB)}
FreshAnswers == {a \in Answers : a.kind = "json"}

InitFresh == InitEngine({TRUE}, {FALSE}, MaxAnalyzeCalls)

NextFresh ==
  \/ \E text \in FreshTexts : Analyze(text, OptionsNone)
  \/ \E i \in 1..Len(runs) : Microtask(i)
  \/ \E answer \in FreshAnswers : ProviderAnswer(answer)
  \/ \E text \in {TextA}, threshold \in Thresholds : InvalidateCache(text, threshold)
  \/ Reset
  \/ Tick

SpecFresh == InitFresh /\ [][NextFresh]_vars

\* C33: an analyze of a text analysed before whose cache entry was gone at the
\* call (invalidated, reset or expired) resolves only with issues obtained from
\* a provider request of its own, made after that point
C33_FreshAfterInvalidation ==
  \A i \in 1..Len(callLog) :
    (/\ promises[i].state = "resolved"
     /\ callLog[i].prior # 0
     /\ ~callLog[i].entryValid) => i \in Range(sent)

\* C34: a promise analyzeRealTime returned that is still pending has what will
\* settle it: its debounce timer is pending or its analysis is under way (so
\* that it is settled once the timers have fired and the provider has answered),
\* for superseded calls and calls pending at destroy() too
C34_PendingPromiseWillSettle ==
  \A i \in 1..Len(promises) :
    (callLog[i].kind = "realtime" /\ promises[i].state = "pending")
      => (timers[i].status = "pending" \/ runs[i].stage \in {"queued", "micro"})


(***************************************************************************)
(* The queue specification: the worker of processQueue under the           *)
(* assumptions that time passes, that the limiter's timer fires and that   *)
(* the provider settles the request in flight.  The clock runs on past     *)
(* MaxRateTime while the limiter's timer is not yet due.                   *)
(***************************************************************************)
QueueTick ==
  /\ now < MaxRateTime \/ (probe.stage = "wait" /\ now < probe.due)
  /\ now' = now + 1
  /\ UNCHANGED <<sideVars, ac, localStorage, ops, budget, lastOp, life, accessSeq, engineVars>>

NextQueue == AnalyzeTextChunk \/ RateTimerFire \/ ChunkSettled \/ QueueTick

SpecQueue ==
  /\ InitRate
  /\ [][NextQueue]_vars
  /\ WF_vars(QueueTick)
  /\ WF_vars(RateTimerFire)
  /\ WF_vars(ChunkSettled)

\* the number of chunk requests settled so far: those that arrived and are
\* neither queued nor with the worker
SettledRequests ==
  probe.arrived - probe.queue - (IF probe.stage = "idle" THEN 0 ELSE 1)

\* C35: no request is left in requestQueue while isProcessing is false, and
\* every chunk request analyzeTextChunk enqueued is eventually dequeued and
\* settled (requests are served in the order they arrived)
C35_EveryRequestSettles ==
  /\ [](~(probe.queue > 0 /\ probe.stage = "idle"))
  /\ \A k \in 1..MaxChunkRequests : (probe.arrived >= k) ~> (SettledRequests >= k)

\* every request has been settled, the third of them after the limiter held it
\* back or after it waited behind the first two
C35_Witness ==
  /\ probe.arrived = MaxChunkRequests
  /\ SettledRequests = MaxChunkRequests
  /\ Len(probe.admitted) = MaxChunkRequests
  /\ probe.admitted[3] >= probe.admitted[1] + SmallTimeWindow

\* C36: the keys of cache are the keys of accessOrder
C36_CacheKeysAreAccessOrderKeys ==
  MapKeys(ac.cache) = MapKeys(ac.accessOrder)

(***************************************************************************)
(* The reset specification: the debounce specification with reset().  The  *)
(* reset step records in probe the number of calls made before it.         *)
(***************************************************************************)
\* engine.reset(), as Reset, with the history of the calls that preceded it
ResetObserved ==
  /\ ~eng.destroyed
  /\ LET w2 == clear(World)
     IN  ac' = w2.c /\ localStorage' = w2.ls
  /\ activeAnalyses' = <<>>
  /\ eng' = [eng EXCEPT !.stats = NewEngineStats]
  /\ probe' = <<Len(callLog)>>
  /\ UNCHANGED <<doc, ur, docBefore, now, timers, runs, promises, ta, sent, settled, callLog,
                 budget, cacheHistory>>

NextReset ==
  \/ \E text \in RealTimeTexts, options \in RealTimeOptions : AnalyzeRealTime(text, options)
  \/ \E h \in 1..Len(timers) : TimerFire(h)
  \/ \E answer \in RealTimeAnswers : ProviderAnswer(answer)
  \/ ResetObserved

SpecReset == InitRealTime /\ [][NextReset]_vars

\* C37: from reset() until the next analyze or analyzeRealTime call the cache is
\* empty and the statistics are zero
C37_ResetStaysClean ==
  (probe # <<>> /\ Len(callLog) = probe[1])
    => (ac.cache = <<>> /\ eng.stats = NewEngineStats)

(***************************************************************************)
(* The retention specification: analyze calls for more distinct texts than *)
(* the engine's cache has room for, their microtasks, provider answers and *)
(* the clock.                                                              *)
(***************************************************************************)
TextAB == <<97, 98>>
RetainTexts == {JsStr(TextA), JsStr(TextB), JsStr(TextAB)}

InitRetain == InitEngine({TRUE}, {FALSE}, MaxCalls)

NextRetain ==
  \/ \E text \in RetainTexts : Analyze(text, OptionsNone)
  \/ \E i \in 1..Len(runs) : Microtask(i)
  \/ \E answer \in RealTimeAnswers : ProviderAnswer(answer)
  \/ Tick

SpecRetain == InitRetain /\ [][NextRetain]_vars

\* C38: the results the engine retains, the entries of its AnalysisCache and of
\* its TextAnalyzer's result cache, number at most maxSize in each of the two
\* layers, however many distinct texts were analysed
C38_RetainedResultsBounded ==
  Len(ac.cache) + Len(ta.analysisCache) <= 2 * ac.maxSize

(***************************************************************************)
(* The destroy specification: an engine whose analyses fill and persist    *)
(* its cache, the clock, destroy() of the engine's cache and destroy() of  *)
(* the engine.                                                             *)
(***************************************************************************)
InitDestroy == InitEngine({TRUE}, {FALSE}, MaxAnalyzeCalls)

NextDestroy ==
  \/ \E text \in FreshTexts : Analyze(text, OptionsNone)
  \/ \E i \in 1..Len(runs) : Microtask(i)
  \/ \E answer \in FreshAnswers : ProviderAnswer(answer)
  \/ Tick
  \/ DestroyCache
  \/ Destroy

SpecDestroy == InitDestroy /\ [][NextDestroy]_vars

\* C39: a step that stops the periodic sweep (AnalysisCache.destroy(), called on
\* the cache or by AnalysisEngine.destroy()) leaves no entry in memory and no
\* snapshot in the store, so that a cache constructed next on the same
\* persistKey starts with no entries
C39_DestroyRemovesEntriesAndSnapshot ==
  [][(ac.cleanupInterval /\ ~ac'.cleanupInterval) =>
       /\ ac'.cache = <<>>
       /\ ac'.accessOrder = <<>>
       /\ ~localStorage'.present
       /\ NewCache(SmallMaxSize, EngineMaxAge, TRUE, localStorage', now').cache = <<>>]_vars

\* the cache was destroyed after it had persisted entries
C39_Witness ==
  /\ ~ac.cleanupInterval
  /\ ac.stats.persistenceSaves > 0
  /\ ac.cache = <<>>
  /\ ~localStorage.present

(***************************************************************************)
(* FieldMonitor, for one monitored field.  fieldData is [lastText,          *)
(* debounceTimer]; debounceTimer is NoDebounce or the pending timer with    *)
(* the currentText its closure captured.                                    *)
(*   probe = [text, fieldData, edits, notified]: the field's text, its      *)
(*   fieldData, the number of edits made and the change notifications       *)
(*   delivered so far, each with the field's text at that moment            *)
(***************************************************************************)
NoDebounce == [pending |-> FALSE, currentText |-> <<>>]

\* FieldMonitor.startMonitoring: the fieldData of a field whose text is text
startMonitoring(text) == [lastText |-> text, debounceTimer |-> NoDebounce]

\* FieldMonitor.processTextChange on the field whose text is currentText: nothing
\* if the text is lastText, else the pending timer is replaced by a new one
processTextChange(fieldData, currentText) ==
  IF currentText = fieldData.lastText THEN fieldData
  ELSE [fieldData EXCEPT !.debounceTimer = [pending |-> TRUE, currentText |-> currentText]]

\* the change event notifyTextChange hands to the callbacks, with the field's
\* text at that moment and whether a debounce timer delivered it
ChangeEvent(oldText, newText, fieldText, byTimer) ==
  [oldText |-> oldText, newText |-> newText, fieldText |-> fieldText, byTimer |-> byTimer]

MaxEdits == 3
MaxNotified == 3
FieldTexts == {<<>>, TextA, TextB}

InitMonitor ==
  /\ MainIdle
  /\ doc = <<>> /\ ur = <<>> /\ docBefore = <<>>
  /\ \E text \in FieldTexts :
       probe = [text |-> text, fieldData |-> startMonitoring(text), edits |-> 0,
                notified |-> <<>>]

\* the user edits the field and the input event reaches handleInput
HandleInput(text) ==
  /\ probe.edits < MaxEdits
  /\ text # probe.text
  /\ probe' = [probe EXCEPT !.text = text, !.edits = @ + 1,
                            !.fieldData = processTextChange(@, text)]
  /\ UNCHANGED <<mainVars, doc, ur, docBefore>>

\* the debounce timer fires: notifyTextChange(field, lastText, currentText), then
\* lastText is set and the timer forgotten
DebounceTimerFire ==
  /\ probe.fieldData.debounceTimer.pending
  /\ Len(probe.notified) < MaxNotified
  /\ LET currentText == probe.fieldData.debounceTimer.currentText
     IN  probe' = [probe EXCEPT
                     !.notified = Append(@, ChangeEvent(probe.fieldData.lastText, currentText,
                                                        probe.text, TRUE)),
                     !.fieldData = [lastText |-> currentText, debounceTimer |-> NoDebounce]]
  /\ UNCHANGED <<mainVars, doc, ur, docBefore>>

\* FieldMonitor.forceTextChangeCheck(field): an immediate notification if the
\* text differs from lastText; a pending timer is left alone
ForceTextChangeCheck ==
  /\ Len(probe.notified) < MaxNotified
  /\ probe.text # probe.fieldData.lastText
  /\ probe' = [probe EXCEPT
                 !.notified = Append(@, ChangeEvent(probe.fieldData.lastText, probe.text,
                                                    probe.text, FALSE)),
                 !.fieldData.lastText = probe.text]
  /\ UNCHANGED <<mainVars, doc, ur, docBefore>>

NextMonitor ==
  \/ \E text \in FieldTexts : HandleInput(text)
  \/ DebounceTimerFire
  \/ ForceTextChangeCheck

SpecMonitor == InitMonitor /\ [][NextMonitor]_vars

\* C40: the newText a debounce timer delivers is the field's text at the moment
\* of firing and differs from oldText
C40_DeliversCurrentText ==
  \A n \in 1..Len(probe.notified) :
    probe.notified[n].byTimer =>
      /\ probe.notified[n].newText = probe.notified[n].fieldText
      /\ probe.notified[n].newText # probe.notified[n].oldText
====
